---------------------------- MODULE Spec2Model ----------------------------
(***************************************************************************)
(* Model of the S3 Object Lambda image gateway (src/s3-object-lambda/      *)
(* lambda): request validation (validators.py), URL signature validation   *)
(* (signature_validator.py), the transform pipeline and the handler with   *)
(* its fallback policy (index.py).                                         *)
(*                                                                         *)
(* Python strings are modelled as sequences of one-character strings, so   *)
(* that splitting, percent-decoding, lower-casing and number parsing are   *)
(* computed and not assumed.                                               *)
(***************************************************************************)
EXTENDS Integers, Sequences, FiniteSets, TLC

VARIABLES
    \* ---- validation harness (lambda_handler lines 79-84)
    query_string,      \* the text after "?" of the request URL
    raw_params,        \* dict returned by parse_query_parameters
    vres,              \* outcome of validate_transform_params
    vpc,               \* "build" | "parsed" | "validated"
    tokens,            \* the tokens the client joined into query_string
    \* ---- signature gate (signature_validator.py)
    request_url,       \* the URL handed to validate_signature
    clock,             \* time.time() in half seconds
    secret_cache,      \* SignatureValidator._secret_cache
    secret_cache_time, \* SignatureValidator._secret_cache_time
    is_signature_enabled, \* Config.is_signature_enabled
    sres,              \* outcome of the last validate_signature call
    spc,               \* "build" | "validated"
    client,            \* what the client did to build request_url
    \* ---- transform pipeline (index.py process_image)
    image_bytes,       \* the bytes of the stored object
    transform_params,  \* the validated TransformParams
    fault,             \* the pipeline step at which Pillow raises, or "none"
    pres,              \* outcome of the last process_image call
    ppc,               \* "build" | "processed"
    \* ---- handler (index.py lambda_handler, handle_error)
    hpc,               \* position of the invocation
    herror,            \* the ImageProcessingError being handled
    sink,              \* the responses the sink accepted, in order
    attempts,          \* every write_get_object_response call and its outcome
    hbody,             \* processed_image_bytes
    fallback_enabled,  \* Config.is_default_fallback_image_enabled
    \* ---- quality policy (quality_optimizer.py)
    default_profile,   \* QualityOptimizer.default_profile
    image_format,      \* argument image_format of get_optimal_quality
    quality_profile,   \* argument quality_profile, or None
    custom_quality,    \* argument custom_quality, or None
    file_size_hint,    \* argument file_size_hint, or None
    profile_params,    \* argument of determine_quality_profile_from_params
    qres,              \* what the last call returned
    qpc,               \* "build" | "arguments" | "quality" | "params" | "profile"
    \* ---- secret cache over time (signature_validator.py _get_secret)
    secret_log,        \* the _get_secret calls and the time that passed between them
    \* ---- concurrent _get_secret calls (signature_validator.py lines 41-73)
    callers,           \* each call: its position and its local variables
    cache_origin,      \* which call wrote _secret_cache and which _secret_cache_time
    time_steps         \* how often time has passed

vvars == <<query_string, raw_params, vres, vpc, tokens>>

svars == <<request_url, clock, secret_cache, secret_cache_time,
           is_signature_enabled, sres, spc, client>>

pvars == <<image_bytes, transform_params, fault, pres, ppc>>

hvars == <<hpc, herror, sink, attempts, hbody, fallback_enabled>>

qvars == <<default_profile, image_format, quality_profile, custom_quality,
           file_size_hint, profile_params, qres, qpc>>

cvars == <<secret_log>>

tvars == <<callers, cache_origin, time_steps>>

vars == <<query_string, raw_params, vres, vpc, tokens,
          request_url, clock, secret_cache, secret_cache_time,
          is_signature_enabled, sres, spc, client,
          image_bytes, transform_params, fault, pres, ppc,
          hpc, herror, sink, attempts, hbody, fallback_enabled,
          default_profile, image_format, quality_profile, custom_quality,
          file_size_hint, profile_params, qres, qpc, secret_log,
          callers, cache_origin, time_steps>>

-----------------------------------------------------------------------------
(* Strings *)

Digits == <<"0", "1", "2", "3", "4", "5", "6", "7", "8", "9">>

UpperChars == <<"A", "B", "C", "D", "E", "F", "G", "H", "I", "J", "K", "L", "M",
                "N", "O", "P", "Q", "R", "S", "T", "U", "V", "W", "X", "Y", "Z">>

LowerChars == <<"a", "b", "c", "d", "e", "f", "g", "h", "i", "j", "k", "l", "m",
                "n", "o", "p", "q", "r", "s", "t", "u", "v", "w", "x", "y", "z">>

IsDigit(c) == \E i \in 1..10 : Digits[i] = c

DigitVal(c) == (CHOOSE i \in 1..10 : Digits[i] = c) - 1

\* str.lower() on one character
LowerChar(c) ==
    IF \E i \in 1..26 : UpperChars[i] = c
    THEN LowerChars[CHOOSE i \in 1..26 : UpperChars[i] = c]
    ELSE c

\* str.lower()
Lower(s) == [i \in 1..Len(s) |-> LowerChar(s[i])]

\* index of the first occurrence of character c in s, 0 when absent
IndexOf(s, c) ==
    IF \E i \in 1..Len(s) : s[i] = c
    THEN CHOOSE i \in 1..Len(s) : s[i] = c /\ \A j \in 1..(i - 1) : s[j] # c
    ELSE 0

\* str.split(sep) for a one-character separator: always at least one piece
RECURSIVE Split(_, _)
Split(s, sep) ==
    LET i == IndexOf(s, sep) IN
    IF i = 0 THEN <<s>>
    ELSE <<SubSeq(s, 1, i - 1)>> \o Split(SubSeq(s, i + 1, Len(s)), sep)

\* sep.join(parts)
RECURSIVE Join(_, _)
Join(parts, sep) ==
    IF parts = <<>> THEN <<>>
    ELSE IF Len(parts) = 1 THEN parts[1]
    ELSE parts[1] \o sep \o Join(Tail(parts), sep)

\* str.strip() for the blank character
RECURSIVE Strip(_)
Strip(s) ==
    IF s = <<>> THEN s
    ELSE IF s[1] = " " THEN Strip(Tail(s))
    ELSE IF s[Len(s)] = " " THEN Strip(SubSeq(s, 1, Len(s) - 1))
    ELSE s

\* The percent escapes urllib's unquote decodes, for the characters that occur
\* in the modelled requests: <<the text after the first "%", decoded character>>.
\* A character outside ASCII is escaped as its UTF-8 bytes.
PercentTable ==
    { << <<"3", "0">>, "0" >>, << <<"3", "1">>, "1" >>, << <<"3", "2">>, "2" >>,
      << <<"3", "D">>, "=" >>, << <<"3", "d">>, "=" >>, << <<"2", "6">>, "&" >>,
      << <<"2", "5">>, "%" >>, << <<"2", "0">>, " " >>, << <<"6", "1">>, "a" >>,
      << <<"7", "7">>, "w" >>, << <<"C", "3", "%", "A", "9">>, "é" >> }

\* s starts with "%" followed by escape e
EscapeAt(s, e) ==
    /\ Len(s) >= Len(e) + 1
    /\ s[1] = "%"
    /\ SubSeq(s, 2, Len(e) + 1) = e

\* urllib.parse.unquote: every percent escape becomes the character it
\* encodes, anything else is kept as it is
RECURSIVE UnquoteFrom(_)
UnquoteFrom(s) ==
    IF s = <<>> THEN <<>>
    ELSE IF s[1] # "%" THEN <<s[1]>> \o UnquoteFrom(Tail(s))
    ELSE IF \E e \in PercentTable : EscapeAt(s, e[1])
         THEN LET e == CHOOSE e \in PercentTable : EscapeAt(s, e[1]) IN
              <<e[2]>> \o UnquoteFrom(SubSeq(s, Len(e[1]) + 2, Len(s)))
         ELSE <<s[1]>> \o UnquoteFrom(Tail(s))

Unquote(s) == IF \A i \in 1..Len(s) : s[i] # "%" THEN s ELSE UnquoteFrom(s)

\* value of a non-empty sequence of decimal digits
RECURSIVE DigitsValue(_)
DigitsValue(s) ==
    IF s = <<>> THEN 0
    ELSE 10 * DigitsValue(SubSeq(s, 1, Len(s) - 1)) + DigitVal(s[Len(s)])

AllDigits(s) == s # <<>> /\ \A i \in 1..Len(s) : IsDigit(s[i])

\* int(s): blanks stripped, an optional sign, then decimal digits; anything
\* else raises ValueError (ok = FALSE)
ParseInt(s) ==
    LET t == Strip(s)
        signed == t # <<>> /\ t[1] \in {"+", "-"}
        body == IF signed THEN Tail(t) ELSE t
    IN  IF AllDigits(body)
        THEN [ok |-> TRUE,
              val |-> IF signed /\ t[1] = "-" THEN 0 - DigitsValue(body)
                      ELSE DigitsValue(body)]
        ELSE [ok |-> FALSE, val |-> 0]

\* str(n) for an integer
RECURSIVE NatToStr(_)
NatToStr(n) ==
    IF n < 10 THEN <<Digits[n + 1]>>
    ELSE NatToStr(n \div 10) \o <<Digits[(n % 10) + 1]>>

IntToStr(n) == IF n < 0 THEN <<"-">> \o NatToStr(0 - n) ELSE NatToStr(n)

RECURSIVE Pow10(_)
Pow10(k) == IF k = 0 THEN 1 ELSE 10 * Pow10(k - 1)

\* float(s): blanks stripped, an optional sign, then "nan", "inf",
\* "infinity" (any case) or digits with an optional fraction.  A finite value
\* is the exact ratio num/den; kind tells finite values, infinities and NaN
\* apart.
ParseFloat(s) ==
    LET t == Strip(s)
        signed == t # <<>> /\ t[1] \in {"+", "-"}
        neg == signed /\ t[1] = "-"
        body == IF signed THEN Tail(t) ELSE t
        low == Lower(body)
        dot == IndexOf(body, ".")
        ipart == IF dot = 0 THEN body ELSE SubSeq(body, 1, dot - 1)
        fpart == IF dot = 0 THEN <<>> ELSE SubSeq(body, dot + 1, Len(body))
        numeric == /\ ipart \o fpart # <<>>
                   /\ \A i \in 1..Len(ipart) : IsDigit(ipart[i])
                   /\ \A i \in 1..Len(fpart) : IsDigit(fpart[i])
        mag == DigitsValue(ipart \o fpart)
    IN  IF low = <<"n", "a", "n">>
        THEN [ok |-> TRUE, kind |-> "nan", num |-> 0, den |-> 1]
        ELSE IF low = <<"i", "n", "f">>
                \/ low = <<"i", "n", "f", "i", "n", "i", "t", "y">>
        THEN [ok |-> TRUE, kind |-> IF neg THEN "-inf" ELSE "inf",
              num |-> 0, den |-> 1]
        ELSE IF numeric
        THEN [ok |-> TRUE, kind |-> "finite",
              num |-> IF neg THEN 0 - mag ELSE mag, den |-> Pow10(Len(fpart))]
        ELSE [ok |-> FALSE, kind |-> "error", num |-> 0, den |-> 1]

\* x < n and x > n for a float x and an integer n, as IEEE comparison gives
\* them: every comparison with NaN is false
FloatLess(x, n) ==
    CASE x.kind = "nan" -> FALSE
      [] x.kind = "inf" -> FALSE
      [] x.kind = "-inf" -> TRUE
      [] OTHER -> x.num < n * x.den

FloatGreater(x, n) ==
    CASE x.kind = "nan" -> FALSE
      [] x.kind = "inf" -> TRUE
      [] x.kind = "-inf" -> FALSE
      [] OTHER -> x.num > n * x.den


-----------------------------------------------------------------------------
(* Dictionaries: a Python dict is a function whose domain is its key set *)

EmptyDict == <<>>

DictSet(d, k, v) == [x \in (DOMAIN d) \cup {k} |-> IF x = k THEN v ELSE d[x]]

HasKey(d, k) == k \in DOMAIN d

\* d restricted to the keys in ks
DictRestrict(d, ks) == [x \in (DOMAIN d) \cap ks |-> d[x]]

-----------------------------------------------------------------------------
(* validators.py: RequestValidator *)

MAX_WIDTH == 2000
MAX_HEIGHT == 2000
MIN_QUALITY == 10
MAX_QUALITY == 100

SUPPORTED_FORMATS ==
    { <<"j", "p", "e", "g">>, <<"j", "p", "g">>, <<"p", "n", "g">>,
      <<"w", "e", "b", "p">>, <<"a", "v", "i", "f">> }

VALID_ROTATIONS == {0, 90, 180, 270}

VALID_FIT_VALUES ==
    { <<"c", "o", "n", "t", "a", "i", "n">>, <<"c", "o", "v", "e", "r">>,
      <<"f", "i", "l", "l">>, <<"i", "n", "s", "i", "d", "e">>,
      <<"o", "u", "t", "s", "i", "d", "e">> }

\* the values the boolean flags read as true
TruthyValues == { <<"t", "r", "u", "e">>, <<"1">>, <<"y", "e", "s">> }

\* query keys
K_w == <<"w">>
K_h == <<"h">>
K_q == <<"q">>
K_f == <<"f">>
K_r == <<"r">>
K_fit == <<"f", "i", "t">>
K_flip == <<"f", "l", "i", "p">>
K_flop == <<"f", "l", "o", "p">>
K_grayscale == <<"g", "r", "a", "y", "s", "c", "a", "l", "e">>
K_greyscale == <<"g", "r", "e", "y", "s", "c", "a", "l", "e">>
K_blur == <<"b", "l", "u", "r">>
K_smart == <<"s", "m", "a", "r", "t">>
K_smartcrop == <<"s", "m", "a", "r", "t", "c", "r", "o", "p">>

\* parse_query_parameters, the loop over the "&"-separated tokens: a token
\* holding "=" is split at its first "=" and binds its key to the decoded value
RECURSIVE ParseTokens(_, _)
ParseTokens(parts, params) ==
    IF parts = <<>> THEN params
    ELSE LET param == Head(parts)
             i == IndexOf(param, "=")
         IN  IF i # 0
             THEN ParseTokens(Tail(parts),
                      DictSet(params, SubSeq(param, 1, i - 1),
                              Unquote(SubSeq(param, i + 1, Len(param)))))
             ELSE ParseTokens(Tail(parts), params)

\* A variant that keeps the first binding of a key instead of the last
RECURSIVE ParseTokensFirstWins(_, _)
ParseTokensFirstWins(parts, params) ==
    IF parts = <<>> THEN params
    ELSE LET param == Head(parts)
             i == IndexOf(param, "=")
         IN  IF i # 0 /\ ~HasKey(params, SubSeq(param, 1, i - 1))
             THEN ParseTokensFirstWins(Tail(parts),
                      DictSet(params, SubSeq(param, 1, i - 1),
                              Unquote(SubSeq(param, i + 1, Len(param)))))
             ELSE ParseTokensFirstWins(Tail(parts), params)

parse_query_parameters_FirstWins(qs) ==
    IF qs = <<>> THEN EmptyDict
    ELSE ParseTokensFirstWins(Split(qs, "&"), EmptyDict)

parse_query_parameters(qs) ==
    IF qs = <<>> THEN EmptyDict
    ELSE ParseTokens(Split(qs, "&"), EmptyDict)

\* Outcomes of one validation step: the dict so far, or a raised exception
StepOk(validated) ==
    [exc |-> "none", params |-> validated, status |-> 0,
     message |-> [text |-> "", arg |-> <<>>]]

\* raise ImageProcessingError(text, status)
RaiseIPE(text, arg, status) ==
    [exc |-> "ImageProcessingError", params |-> EmptyDict, status |-> status,
     message |-> [text |-> text, arg |-> arg]]

\* ValueError raised by int() or float() on value
RaiseValueError(text, value) ==
    [exc |-> "ValueError", params |-> EmptyDict, status |-> 0,
     message |-> [text |-> text, arg |-> value]]

IntLiteralError == "invalid literal for int() with base 10"
FloatLiteralError == "could not convert string to float"

\* A variant whose upper bound is off by one: MAX_WIDTH itself is refused
StepWidth_OffByOne(params, validated) ==
    IF ~HasKey(params, K_w) THEN StepOk(validated)
    ELSE LET width == ParseInt(params[K_w]) IN
         IF ~width.ok THEN RaiseValueError(IntLiteralError, params[K_w])
         ELSE IF width.val <= 0
         THEN RaiseIPE("Width must be positive", <<>>, 400)
         ELSE IF width.val >= MAX_WIDTH
         THEN RaiseIPE("Width cannot exceed px", IntToStr(MAX_WIDTH), 400)
         ELSE StepOk(DictSet(validated, "width", width.val))

StepWidth(params, validated) ==
    IF ~HasKey(params, K_w) THEN StepOk(validated)
    ELSE LET width == ParseInt(params[K_w]) IN
         IF ~width.ok THEN RaiseValueError(IntLiteralError, params[K_w])
         ELSE IF width.val <= 0
         THEN RaiseIPE("Width must be positive", <<>>, 400)
         ELSE IF width.val > MAX_WIDTH
         THEN RaiseIPE("Width cannot exceed px", IntToStr(MAX_WIDTH), 400)
         ELSE StepOk(DictSet(validated, "width", width.val))

StepHeight(params, validated) ==
    IF ~HasKey(params, K_h) THEN StepOk(validated)
    ELSE LET height == ParseInt(params[K_h]) IN
         IF ~height.ok THEN RaiseValueError(IntLiteralError, params[K_h])
         ELSE IF height.val <= 0
         THEN RaiseIPE("Height must be positive", <<>>, 400)
         ELSE IF height.val > MAX_HEIGHT
         THEN RaiseIPE("Height cannot exceed px", IntToStr(MAX_HEIGHT), 400)
         ELSE StepOk(DictSet(validated, "height", height.val))

StepQuality(params, validated) ==
    IF ~HasKey(params, K_q) THEN StepOk(validated)
    ELSE LET quality == ParseInt(params[K_q]) IN
         IF ~quality.ok THEN RaiseValueError(IntLiteralError, params[K_q])
         ELSE IF quality.val < MIN_QUALITY \/ quality.val > MAX_QUALITY
         THEN RaiseIPE("Quality must be between", <<>>, 400)
         ELSE StepOk(DictSet(validated, "quality", quality.val))

StepFormat(params, validated) ==
    IF ~HasKey(params, K_f) THEN StepOk(validated)
    ELSE LET format_value == Lower(params[K_f]) IN
         IF format_value \notin SUPPORTED_FORMATS
         THEN RaiseIPE("Unsupported format", format_value, 400)
         ELSE StepOk(DictSet(validated, "format", format_value))

StepRotation(params, validated) ==
    IF ~HasKey(params, K_r) THEN StepOk(validated)
    ELSE LET rotation == ParseInt(params[K_r]) IN
         IF ~rotation.ok THEN RaiseValueError(IntLiteralError, params[K_r])
         ELSE IF rotation.val \notin VALID_ROTATIONS
         THEN RaiseIPE("Invalid rotation", IntToStr(rotation.val), 400)
         ELSE StepOk(DictSet(validated, "rotate", rotation.val))

StepFit(params, validated) ==
    IF ~HasKey(params, K_fit) THEN StepOk(validated)
    ELSE LET fit_value == Lower(params[K_fit]) IN
         IF fit_value \notin VALID_FIT_VALUES
         THEN RaiseIPE("Invalid fit value", fit_value, 400)
         ELSE StepOk(DictSet(validated, "fit", fit_value))

StepFlip(params, validated) ==
    IF ~HasKey(params, K_flip) THEN StepOk(validated)
    ELSE StepOk(DictSet(validated, "flip", Lower(params[K_flip]) \in TruthyValues))

StepFlop(params, validated) ==
    IF ~HasKey(params, K_flop) THEN StepOk(validated)
    ELSE StepOk(DictSet(validated, "flop", Lower(params[K_flop]) \in TruthyValues))

\* A variant that reads the flag's value the way flip and flop are read
StepGrayscale_ByValue(params, validated) ==
    IF HasKey(params, K_grayscale) \/ HasKey(params, K_greyscale)
    THEN LET value == IF HasKey(params, K_grayscale) THEN params[K_grayscale]
                      ELSE params[K_greyscale]
         IN  StepOk(DictSet(validated, "grayscale", Lower(value) \in TruthyValues))
    ELSE StepOk(validated)

StepGrayscale(params, validated) ==
    IF HasKey(params, K_grayscale) \/ HasKey(params, K_greyscale)
    THEN StepOk(DictSet(validated, "grayscale", TRUE))
    ELSE StepOk(validated)

StepBlur(params, validated) ==
    IF ~HasKey(params, K_blur) THEN StepOk(validated)
    ELSE LET blur == ParseFloat(params[K_blur]) IN
         IF ~blur.ok THEN RaiseValueError(FloatLiteralError, params[K_blur])
         ELSE IF FloatLess(blur, 0) \/ FloatGreater(blur, 100)
         THEN RaiseIPE("Blur value must be between 0 and 100", <<>>, 400)
         ELSE StepOk(DictSet(validated, "blur",
                             [kind |-> blur.kind, num |-> blur.num, den |-> blur.den]))

StepSmartCrop(params, validated) ==
    IF HasKey(params, K_smart) \/ HasKey(params, K_smartcrop)
    THEN LET value == IF HasKey(params, K_smart) THEN params[K_smart]
                      ELSE params[K_smartcrop]
         IN  StepOk(DictSet(validated, "smart_crop", Lower(value) \in TruthyValues))
    ELSE StepOk(validated)

\* The order in which validate_transform_params looks at the keys
ValidationOrder ==
    <<"w", "h", "q", "f", "r", "fit", "flip", "flop", "grayscale", "blur", "smart">>

ValidationStep(step, params, validated) ==
    CASE step = "w" -> StepWidth(params, validated)
      [] step = "h" -> StepHeight(params, validated)
      [] step = "q" -> StepQuality(params, validated)
      [] step = "f" -> StepFormat(params, validated)
      [] step = "r" -> StepRotation(params, validated)
      [] step = "fit" -> StepFit(params, validated)
      [] step = "flip" -> StepFlip(params, validated)
      [] step = "flop" -> StepFlop(params, validated)
      [] step = "grayscale" -> StepGrayscale(params, validated)
      [] step = "blur" -> StepBlur(params, validated)
      [] step = "smart" -> StepSmartCrop(params, validated)

\* the body of the try block: the steps run in order and the first exception
\* leaves the block
RECURSIVE RunValidation(_, _, _)
RunValidation(steps, params, validated) ==
    IF steps = <<>> THEN StepOk(validated)
    ELSE LET r == ValidationStep(Head(steps), params, validated) IN
         IF r.exc # "none" THEN r
         ELSE RunValidation(Tail(steps), params, r.params)

\* validate_transform_params: a ValueError leaving the try block is raised
\* again as ImageProcessingError with status 400 and the parse message embedded
validate_transform_params(params) ==
    LET r == RunValidation(ValidationOrder, params, EmptyDict) IN
    IF r.exc = "ValueError"
    THEN RaiseIPE("Invalid parameter value: " \o r.message.text, r.message.arg, 400)
    ELSE r

-----------------------------------------------------------------------------
(* The requests the validation harness feeds to the validator *)

MaxTokens == 2

TokenPool ==
    { <<"w", "=", "1", "0", "0">>,
      <<"w", "=", "1">>,
      <<"w", "=", "2", "0", "0", "0">>,
      <<"w", "=", "2", "0", "0", "1">>,
      <<"w", "=", "0">>,
      <<"w", "=", "-", "5">>,
      <<"w", "=", "a", "b", "c">>,
      <<"w", "=", "%", "3", "1", "%", "3", "0">>,
      <<"w", "=">>,
      <<"w">>,
      <<"w", "=", "1", "=", "2">>,
      <<"h", "=", "2", "0", "0">>,
      <<"h", "=", "2", "0", "0", "0">>,
      <<"h", "=", "2", "0", "0", "1">>,
      <<"h", "=", "0">>,
      <<"h", "=", "-", "1">>,
      <<"q", "=", "9">>,
      <<"q", "=", "1", "0">>,
      <<"q", "=", "1", "0", "0">>,
      <<"q", "=", "1", "0", "1">>,
      <<"f", "=", "P", "N", "G">>,
      <<"f", "=", "g", "i", "f">>,
      <<"r", "=", "2", "7", "0">>,
      <<"r", "=", "4", "5">>,
      <<"f", "i", "t", "=", "C", "o", "v", "e", "r">>,
      <<"f", "i", "t", "=", "s", "t", "r", "e", "t", "c", "h">>,
      <<"f", "l", "i", "p", "=", "Y", "E", "S">>,
      <<"f", "l", "i", "p", "=", "n", "o">>,
      <<"f", "l", "o", "p", "=", "1">>,
      <<"g", "r", "a", "y", "s", "c", "a", "l", "e", "=", "f", "a", "l", "s", "e">>,
      <<"g", "r", "e", "y", "s", "c", "a", "l", "e", "=", "0">>,
      <<"b", "l", "u", "r", "=", "1", "0", "0">>,
      <<"b", "l", "u", "r", "=", "1", "0", "0", ".", "5">>,
      <<"b", "l", "u", "r", "=", "n", "a", "n">>,
      <<"b", "l", "u", "r", "=", "x">>,
      <<"b", "l", "u", "r", "=", "-", "1">>,
      <<"s", "m", "a", "r", "t", "=", "t", "r", "u", "e">>,
      <<"s", "m", "a", "r", "t", "c", "r", "o", "p", "=", "n", "o">>,
      <<"=", "5">> }

NoResult == [exc |-> "unset", params |-> EmptyDict, status |-> 0,
             message |-> [text |-> "", arg |-> <<>>]]

\* the validation harness before a request
IdleV ==
    /\ query_string = <<>>
    /\ raw_params = EmptyDict
    /\ vres = NoResult
    /\ vpc = "build"
    /\ tokens = <<>>

\* the client adds one more "&"-separated token to the query string
AddToken(t) ==
    /\ vpc = "build"
    /\ Len(tokens) < MaxTokens
    /\ query_string' = IF query_string = <<>> THEN t ELSE query_string \o <<"&">> \o t
    /\ tokens' = Append(tokens, t)
    /\ UNCHANGED <<raw_params, vres, vpc>>

\* lambda_handler line 81
ParseQuery ==
    /\ vpc = "build"
    /\ raw_params' = parse_query_parameters(query_string)
    /\ vpc' = "parsed"
    /\ UNCHANGED <<query_string, vres, tokens>>

\* lambda_handler line 84
ValidateParams ==
    /\ vpc = "parsed"
    /\ vres' = validate_transform_params(raw_params)
    /\ vpc' = "validated"
    /\ UNCHANGED <<query_string, raw_params, tokens>>

-----------------------------------------------------------------------------
(* Library functions used by signature_validator.py *)

HexChars == <<"0", "1", "2", "3", "4", "5", "6", "7", "8", "9",
              "a", "b", "c", "d", "e", "f">>

\* the characters requests and secrets are written in; a character's code is
\* its position
Alphabet ==
    Digits \o LowerChars \o UpperChars
    \o <<"/", "?", "=", "&", "%", " ", ".", "-", "+", "_", "é">>

IsAscii(c) == c # "é"

CharCodes ==
    [c \in {Alphabet[i] : i \in 1..Len(Alphabet)} |->
        CHOOSE i \in 1..Len(Alphabet) : Alphabet[i] = c]

CharCode(c) == IF c \in DOMAIN CharCodes THEN CharCodes[c] ELSE 0

RECURSIVE Roll(_, _)
Roll(h, s) ==
    IF s = <<>> THEN h
    ELSE Roll((h * 31 + CharCode(s[1])) % 65536, Tail(s))

\* hmac.new(key, msg, hashlib.sha256).hexdigest(): a keyed digest of msg
\* written in lower-case hex.  The digest is a rolling checksum over the key
\* followed by the message, four hex characters long: deterministic, and
\* sensitive to the key and to every character and position of the message.
HmacSha256Hex(key, msg) ==
    LET d == Roll(Roll(0, key), msg) IN
    <<HexChars[((d \div 4096) % 16) + 1], HexChars[((d \div 256) % 16) + 1],
      HexChars[((d \div 16) % 16) + 1], HexChars[(d % 16) + 1]>>

\* hmac.compare_digest(a, b) on two str: TypeError when either holds a
\* character outside ASCII, otherwise their equality
CompareDigest(a, b) ==
    IF \E i \in 1..Len(a) : ~IsAscii(a[i]) THEN "TypeError"
    ELSE IF \E i \in 1..Len(b) : ~IsAscii(b[i]) THEN "TypeError"
    ELSE IF a = b THEN "equal" ELSE "different"

\* urlparse(url): the path and the query of an origin-form URL; the fragment
\* is cut off first
UrlParse(url) ==
    LET h == IndexOf(url, "#")
        nofrag == IF h = 0 THEN url ELSE SubSeq(url, 1, h - 1)
        q == IndexOf(nofrag, "?")
    IN  [path |-> IF q = 0 THEN nofrag ELSE SubSeq(nofrag, 1, q - 1),
         query |-> IF q = 0 THEN <<>> ELSE SubSeq(nofrag, q + 1, Len(nofrag))]

\* str.replace("+", " ")
ReplacePlus(s) == [i \in 1..Len(s) |-> IF s[i] = "+" THEN " " ELSE s[i]]

\* urllib.parse.parse_qsl with its defaults: a token without "=" or with an
\* empty value is dropped, names and values are decoded
RECURSIVE ParseQsl(_)
ParseQsl(parts) ==
    IF parts = <<>> THEN <<>>
    ELSE LET nv == Head(parts)
             i == IndexOf(nv, "=")
         IN  IF i = 0 \/ i = Len(nv) THEN ParseQsl(Tail(parts))
             ELSE << <<Unquote(ReplacePlus(SubSeq(nv, 1, i - 1))),
                       Unquote(ReplacePlus(SubSeq(nv, i + 1, Len(nv))))>> >>
                  \o ParseQsl(Tail(parts))

\* urllib.parse.parse_qs(query) as the list of its items(): each name once, in
\* the order of first appearance, with the list of its values
RECURSIVE GroupPairs(_, _)
GroupPairs(pairs, items) ==
    IF pairs = <<>> THEN items
    ELSE LET name == Head(pairs)[1]
             value == Head(pairs)[2]
         IN  IF \E i \in 1..Len(items) : items[i][1] = name
             THEN LET i == CHOOSE i \in 1..Len(items) : items[i][1] = name IN
                  GroupPairs(Tail(pairs),
                             [items EXCEPT ![i] = <<name, Append(items[i][2], value)>>])
             ELSE GroupPairs(Tail(pairs), Append(items, <<name, <<value>> >>))

parse_qs(query) == GroupPairs(ParseQsl(Split(query, "&")), <<>>)

QsHas(items, name) == \E i \in 1..Len(items) : items[i][1] = name

\* query_params[name]
QsGet(items, name) == items[CHOOSE i \in 1..Len(items) : items[i][1] = name][2]

\* query_params[name] = values: an existing name keeps its place
QsSet(items, name, values) ==
    IF QsHas(items, name)
    THEN [i \in 1..Len(items) |->
             IF items[i][1] = name THEN <<name, values>> ELSE items[i]]
    ELSE Append(items, <<name, values>>)

\* "&".join(f"{key}={value[0]}" for key, value in items if key not in skip)
RECURSIVE JoinFirstValues(_, _)
JoinFirstValues(items, skip) ==
    IF items = <<>> THEN <<>>
    ELSE LET rest == JoinFirstValues(Tail(items), skip)
             key == Head(items)[1]
             this == key \o <<"=">> \o Head(items)[2][1]
         IN  IF key \in skip THEN rest
             ELSE IF rest = <<>> /\ ~(\E i \in 2..Len(items) : items[i][1] \notin skip)
             THEN this
             ELSE this \o <<"&">> \o rest

-----------------------------------------------------------------------------
(* signature_validator.py: SignatureValidator *)

SECRET_CACHE_TTL == 300

K_signature == <<"s", "i", "g", "n", "a", "t", "u", "r", "e">>
K_expires == <<"e", "x", "p", "i", "r", "e", "s">>

None == [has |-> FALSE, val |-> <<>>]

Some(v) == [has |-> TRUE, val |-> v]

\* time.time() is kept in half seconds: int(time.time())
NowSeconds(t) == t \div 2

\* the secret the store holds: as the signing_key field of a JSON secret
\* ("json") or as the whole secret string ("plain"); "down" fails every lookup
SigningSecret == <<"k", "1">>

StoreModes == {"json", "plain", "down"}

\* the secret after a rotation
RotatedSecret == <<"k", "2">>

\* further states of the deployment: the signing_key field holds another
\* secret ("rotated") or the empty string ("empty"), or Config.secret_name is
\* not set ("unnamed")
SecretStates == StoreModes \cup {"rotated", "empty", "unnamed"}

\* AWSClients.get_secret_value(secret_name, "signing_key")
StructuredLookup(store) ==
    CASE store = "json" -> [ok |-> TRUE, value |-> SigningSecret]
      [] store = "rotated" -> [ok |-> TRUE, value |-> RotatedSecret]
      [] store = "empty" -> [ok |-> TRUE, value |-> <<>>]
      [] OTHER -> [ok |-> FALSE, value |-> <<>>]

\* AWSClients.get_secret_value(secret_name)
PlainLookup(store) ==
    IF store = "plain" THEN [ok |-> TRUE, value |-> SigningSecret]
    ELSE [ok |-> FALSE, value |-> <<>>]

\* self.config.secret_name is set
SecretNameConfigured(store) == store # "unnamed"

\* the cache entry is fresh at time now (half seconds)
CacheHit(cache, cache_time, now) ==
    /\ cache.has /\ cache.val # <<>>
    /\ cache_time.has /\ cache_time.val # 0
    /\ (now - cache_time.val) < 2 * SECRET_CACHE_TTL

\* what a _get_secret call gives: the secret or the raised error with its
\* status, the cache as the call leaves it and the lookups made in the store
SecretOutcome(exc, status, secret, cache, cache_time, lookups) ==
    [exc |-> exc, status |-> status, secret |-> secret, cache |-> cache,
     cache_time |-> cache_time, store_calls |-> Len(lookups), lookups |-> lookups]

\* A variant that drops the cache entry when the store fails
GetSecret_ForgetOnFailure(cache, cache_time, now, store) ==
    IF CacheHit(cache, cache_time, now)
    THEN SecretOutcome("none", 0, cache.val, cache, cache_time, <<>>)
    ELSE IF ~SecretNameConfigured(store)
    THEN SecretOutcome("ImageProcessingError", 500, <<>>, None, None, <<>>)
    ELSE LET first == StructuredLookup(store)
             second == PlainLookup(store)
         IN  IF first.ok
             THEN SecretOutcome("none", 0, first.value, Some(first.value), Some(now),
                                <<"signing_key">>)
             ELSE IF second.ok
             THEN SecretOutcome("none", 0, second.value, Some(second.value), Some(now),
                                <<"signing_key", "plain">>)
             ELSE SecretOutcome("ImageProcessingError", 500, <<>>, None, None,
                                <<"signing_key", "plain">>)

\* _get_secret: a fresh cache entry is returned; otherwise, with a secret name
\* configured, the signing_key field is looked up, then the plain secret, and
\* what was found is cached with the time of the call; every failure leaves as
\* ImageProcessingError("Failed to retrieve signing secret", 500)
GetSecret(cache, cache_time, now, store) ==
    IF CacheHit(cache, cache_time, now)
    THEN SecretOutcome("none", 0, cache.val, cache, cache_time, <<>>)
    ELSE IF ~SecretNameConfigured(store)
    THEN SecretOutcome("ImageProcessingError", 500, <<>>, cache, cache_time, <<>>)
    ELSE LET first == StructuredLookup(store)
             second == PlainLookup(store)
         IN  IF first.ok
             THEN SecretOutcome("none", 0, first.value, Some(first.value), Some(now),
                                <<"signing_key">>)
             ELSE IF second.ok
             THEN SecretOutcome("none", 0, second.value, Some(second.value), Some(now),
                                <<"signing_key", "plain">>)
             ELSE SecretOutcome("ImageProcessingError", 500, <<>>, cache, cache_time,
                                <<"signing_key", "plain">>)

\* current_timestamp > expires_timestamp
Expired_Inclusive(current_timestamp, expires_timestamp) ==
    current_timestamp >= expires_timestamp

Expired(current_timestamp, expires_timestamp) ==
    current_timestamp > expires_timestamp

\* the string validate_signature signs: the path, "?", and for each name of
\* parse_qs other than signature its first value
StringToSign(url) ==
    LET parsed_url == UrlParse(url) IN
    parsed_url.path \o <<"?">>
        \o JoinFirstValues(parse_qs(parsed_url.query), {K_signature})

SigOutcome(exc, status, text, g) ==
    [exc |-> exc, status |-> status, text |-> text, cache |-> g.cache,
     cache_time |-> g.cache_time, store_calls |-> g.store_calls]

\* the body of validate_signature's try block
ValidateSignatureBody(url, now, cache, cache_time, store) ==
    LET query_params == parse_qs(UrlParse(url).query)
        untouched == [cache |-> cache, cache_time |-> cache_time, store_calls |-> 0]
    IN  IF ~QsHas(query_params, K_signature)
        THEN SigOutcome("ImageProcessingError", 403, "Missing signature parameter", untouched)
        ELSE IF ~QsHas(query_params, K_expires)
        THEN SigOutcome("ImageProcessingError", 403, "Missing expires parameter", untouched)
        ELSE LET signature == QsGet(query_params, K_signature)[1]
                 expires == QsGet(query_params, K_expires)[1]
                 expires_timestamp == ParseInt(expires)
             IN  IF ~expires_timestamp.ok
                 THEN SigOutcome("ImageProcessingError", 400, "Invalid expires parameter", untouched)
                 ELSE IF Expired(NowSeconds(now), expires_timestamp.val)
                 THEN SigOutcome("ImageProcessingError", 403, "Signature has expired", untouched)
                 ELSE LET g == GetSecret(cache, cache_time, now, store) IN
                      IF g.exc # "none"
                      THEN SigOutcome("ImageProcessingError", 500,
                                      "Failed to retrieve signing secret", g)
                      ELSE LET expected_signature ==
                                   HmacSha256Hex(g.secret, StringToSign(url))
                               same == CompareDigest(signature, expected_signature)
                           IN  IF same = "TypeError" THEN SigOutcome("TypeError", 0, "", g)
                               ELSE IF same = "different"
                               THEN SigOutcome("ImageProcessingError", 403, "Invalid signature", g)
                               ELSE SigOutcome("none", 0, "", g)

\* validate_signature: nothing is checked when signatures are disabled; an
\* ImageProcessingError leaves as it is and any other exception as status 500
validate_signature(url, enabled, now, cache, cache_time, store) ==
    IF ~enabled
    THEN SigOutcome("none", 0, "",
                    [cache |-> cache, cache_time |-> cache_time, store_calls |-> 0])
    ELSE LET r == ValidateSignatureBody(url, now, cache, cache_time, store) IN
         IF r.exc \in {"none", "ImageProcessingError"} THEN r
         ELSE SigOutcome("ImageProcessingError", 500, "Signature validation failed", r)

\* A variant that signs the URL as it is written, with expires appended
generate_signature_AsWritten(url, secret, expires) ==
    LET parsed_url == UrlParse(url)
        written == IF parsed_url.query = <<>> THEN <<>> ELSE parsed_url.query \o <<"&">>
    IN  HmacSha256Hex(secret, parsed_url.path \o <<"?">> \o written
                                  \o K_expires \o <<"=">> \o IntToStr(expires))

\* generate_signature(url, secret, expires)
generate_signature(url, secret, expires) ==
    LET parsed_url == UrlParse(url)
        query_params == QsSet(parse_qs(parsed_url.query), K_expires, <<IntToStr(expires)>>)
    IN  HmacSha256Hex(secret, parsed_url.path \o <<"?">> \o JoinFirstValues(query_params, {}))

-----------------------------------------------------------------------------
(* The requests the signature gate is given *)

MaxParams == 2
MaxClock == 10

\* the time of construction, in half seconds
StartClock == MaxClock - 1

\* the URL of the object, before any query
ObjectUrl == <<"/", "i">>

SigParamPool ==
    { <<"w", "=", "1">>,
      <<"w", "=", "2">>,
      <<"h", "=">>,
      <<"e", "x", "p", "i", "r", "e", "s", "=", "x">>,
      <<"s", "i", "g", "n", "a", "t", "u", "r", "e", "=", "0", "0", "0", "0">> }

\* the ways a client completes a URL with expires and signature
SignModes == {"exact", "flipAscii", "flipNonAscii", "rawQuery", "expiresOnly"}

\* the expiry the client asks for, in epoch seconds
SignExpires == {4}

AppendToUrl(url, t) ==
    IF IndexOf(url, "?") = 0 THEN url \o <<"?">> \o t ELSE url \o <<"&">> \o t

\* another hex character than c
OtherHex(c) == IF c = "0" THEN "1" ELSE "0"

\* the signature a client puts on url + expires, by mode
ClientSignature(url, expires, mode) ==
    LET good == generate_signature(url, SigningSecret, expires) IN
    CASE mode = "exact" -> good
      [] mode = "flipAscii" -> <<OtherHex(good[1])>> \o Tail(good)
      [] mode = "flipNonAscii" -> <<"%", "C", "3", "%", "A", "9">> \o Tail(good)
      [] mode = "rawQuery" ->
            HmacSha256Hex(SigningSecret,
                          AppendToUrl(url, K_expires \o <<"=">> \o IntToStr(expires)))
      [] OTHER -> <<>>

NoSigResult ==
    [exc |-> "unset", status |-> 0, text |-> "", cache |-> None, cache_time |-> None,
     store_calls |-> 0, store |-> "none", cache_before |-> None,
     cache_time_before |-> None]

\* the signature gate after construction, before a request: enabled is
\* Config.is_signature_enabled
GateConstructed(enabled) ==
    /\ request_url = ObjectUrl
    /\ clock = StartClock
    /\ secret_cache = None
    /\ secret_cache_time = None
    /\ is_signature_enabled = enabled
    /\ sres = NoSigResult
    /\ spc = "build"
    /\ client = [params |-> 0, sign |-> "none", expires |-> 0, prior |-> FALSE]

IdleS == GateConstructed(TRUE)

\* time passes before the request arrives
Tick ==
    /\ spc = "build"
    /\ request_url = ObjectUrl
    /\ clock < MaxClock
    /\ clock' = clock + 1
    /\ UNCHANGED <<request_url, secret_cache, secret_cache_time,
                   is_signature_enabled, sres, spc, client>>

\* an earlier invocation of the same process reached _get_secret
PriorFetch(store) ==
    /\ spc = "build"
    /\ request_url = ObjectUrl
    /\ ~client.prior
    /\ \E g \in {GetSecret(secret_cache, secret_cache_time, clock, store)} :
       /\ g.exc = "none"
       /\ secret_cache' = g.cache
       /\ secret_cache_time' = g.cache_time
    /\ client' = [client EXCEPT !.prior = TRUE]
    /\ UNCHANGED <<request_url, clock, is_signature_enabled, sres, spc>>

\* the client adds a query parameter to the URL
AddParam(t) ==
    /\ spc = "build"
    /\ client.params < MaxParams
    /\ request_url' = AppendToUrl(request_url, t)
    /\ client' = [client EXCEPT !.params = @ + 1]
    /\ UNCHANGED <<clock, secret_cache, secret_cache_time,
                   is_signature_enabled, sres, spc>>

\* the client signs the URL as it stands and adds expires and signature
SignUrl(mode, expires) ==
    /\ spc = "build"
    /\ client.sign = "none"
    /\ LET with_expires ==
               AppendToUrl(request_url, K_expires \o <<"=">> \o IntToStr(expires))
       IN  request_url' =
               IF mode = "expiresOnly" THEN with_expires
               ELSE AppendToUrl(with_expires,
                        K_signature \o <<"=">>
                            \o ClientSignature(request_url, expires, mode))
    /\ client' = [client EXCEPT !.sign = mode, !.expires = expires]
    /\ UNCHANGED <<clock, secret_cache, secret_cache_time,
                   is_signature_enabled, sres, spc>>

\* lambda_handler lines 76-77: signature_validator.validate_signature(request_url)
ValidateSignature(store) ==
    /\ spc = "build"
    /\ \E r \in {validate_signature(request_url, is_signature_enabled, clock,
                                     secret_cache, secret_cache_time, store)} :
           /\ sres' = [exc |-> r.exc, status |-> r.status, text |-> r.text,
                       cache |-> r.cache, cache_time |-> r.cache_time,
                       store_calls |-> r.store_calls, store |-> store,
                       cache_before |-> secret_cache,
                       cache_time_before |-> secret_cache_time]
           /\ secret_cache' = r.cache
           /\ secret_cache_time' = r.cache_time
    /\ spc' = "validated"
    /\ UNCHANGED <<request_url, clock, is_signature_enabled, client>>

-----------------------------------------------------------------------------
(* Images: what Pillow reads and writes *)

\* An image file is the byte string <<format, mode, width, height, setting,
\* effects>> that Image.save writes: effects are the operations the pixels
\* went through, "saved" among them once this program wrote the file.  Every
\* other byte string is not an image.
ImageFormats == {"JPEG", "PNG", "WEBP", "AVIF"}

ImageModes == {"RGB", "RGBA", "LA", "P", "L"}

\* Image.save(buffer, format=..., quality=... | compress_level=...)
EncodeImage(image, format, setting) ==
    <<format, image.mode, image.size[1], image.size[2], setting,
      image.effects \cup {"saved"}>>

\* the bytes hold an image file
IsImageFile(bytes) ==
    /\ Len(bytes) = 6
    /\ bytes[1] \in ImageFormats /\ bytes[2] \in ImageModes
    /\ bytes[3] >= 1 /\ bytes[4] >= 1

\* Image.open(io.BytesIO(image_bytes)): the image, or the error Pillow raises
\* on bytes that are not an image file
OpenImage(bytes) ==
    IF IsImageFile(bytes)
    THEN [ok |-> TRUE,
          image |-> [format |-> bytes[1], mode |-> bytes[2],
                     size |-> <<bytes[3], bytes[4]>>, effects |-> bytes[6]]]
    ELSE [ok |-> FALSE,
          image |-> [format |-> "", mode |-> "", size |-> <<0, 0>>, effects |-> {}]]

AbsDiff(a, b) == IF a >= b THEN a - b ELSE b - a

\* Image.thumbnail((x, y)): the size Pillow scales to.  The image is left
\* alone when it fits the box; otherwise one axis is kept and the other is the
\* floor or the ceiling of its exact value, whichever keeps the aspect ratio
\* closer (the floor on a tie), and never less than 1.
ThumbnailSize(size, x, y) ==
    LET w == size[1]
        h == size[2]
    IN  IF x >= w /\ y >= h THEN size
        ELSE IF x * h >= w * y
        THEN LET lo == (y * w) \div h
                 hi == IF lo * h = y * w THEN lo ELSE lo + 1
                 pick == IF AbsDiff(w * y, lo * h) <= AbsDiff(w * y, hi * h) THEN lo ELSE hi
             IN  <<IF pick < 1 THEN 1 ELSE pick, y>>
        ELSE LET lo == (x * h) \div w
                 hi == IF lo * w = x * h THEN lo ELSE lo + 1
                 pick == IF lo = 0 THEN lo
                         ELSE IF AbsDiff(w * lo, x * h) * hi <= AbsDiff(w * hi, x * h) * lo
                         THEN lo ELSE hi
             IN  <<x, IF pick < 1 THEN 1 ELSE pick>>

-----------------------------------------------------------------------------
(* index.py: the transform pipeline *)

\* transform_params.get(key, default)
ParamGet(params, key, default) == IF HasKey(params, key) THEN params[key] ELSE default

F_jpeg == <<"j", "p", "e", "g">>
F_jpg == <<"j", "p", "g">>
F_png == <<"p", "n", "g">>
F_webp == <<"w", "e", "b", "p">>
F_avif == <<"a", "v", "i", "f">>

\* a blur value is truthy unless it is zero
BlurTruthy(params) ==
    HasKey(params, "blur") /\ ~(params["blur"].kind = "finite" /\ params["blur"].num = 0)

\* A variant of the order in which the image is rotated before it is resized
PipelineStages_RotateFirst ==
    <<"decode", "normalize", "rotate", "resize", "flip", "flop", "grayscale",
      "blur", "encode">>

\* the steps of process_image that call into Pillow, in the order they run
PipelineStages ==
    <<"decode", "normalize", "resize", "rotate", "flip", "flop", "grayscale",
      "blur", "encode">>

\* process_image lines 220-230: an image with transparency or a palette is
\* pasted on a white RGB background when the output is JPEG
NeedsNormalize(image, params) ==
    /\ image.mode \in {"RGBA", "LA", "P"}
    /\ ParamGet(params, "format", F_jpeg) \in {F_jpeg, F_jpg}

\* _apply_resize: the target box, with a missing axis derived from the aspect
\* ratio of the image; <<0, 0>> when no axis was asked for
ResizeTarget(image, params) ==
    LET original_width == image.size[1]
        original_height == image.size[2]
        target_width == ParamGet(params, "width", 0)
        target_height == ParamGet(params, "height", 0)
    IN  IF target_width = 0 /\ target_height = 0 THEN <<0, 0>>
        ELSE IF target_height = 0
        THEN \* int(target_width * (original_height / original_width))
             <<target_width, (target_width * original_height) \div original_width>>
        ELSE IF target_width = 0
        THEN <<(target_height * original_width) \div original_height, target_height>>
        ELSE <<target_width, target_height>>

\* _apply_resize reaches one of its three Pillow calls
ResizeApplies(image, params) ==
    ResizeTarget(image, params)[1] # 0 /\ ResizeTarget(image, params)[2] # 0

\* A variant that resizes to the box itself whatever the fit
ApplyResize_AlwaysExact(image, params) ==
    LET target == ResizeTarget(image, params)
    IN  IF ~ResizeApplies(image, params) THEN image
        ELSE [image EXCEPT !.size = target]

\* _apply_resize: ImageOps.fit for cover and Image.resize for fill give the
\* box itself, every other fit goes through Image.thumbnail
ApplyResize(image, params) ==
    LET target == ResizeTarget(image, params)
        fit_method == ParamGet(params, "fit", <<"c", "o", "n", "t", "a", "i", "n">>)
    IN  IF ~ResizeApplies(image, params) THEN image
        ELSE IF fit_method \in {<<"c", "o", "v", "e", "r">>, <<"f", "i", "l", "l">>}
        THEN [image EXCEPT !.size = target]
        ELSE [image EXCEPT !.size = ThumbnailSize(image.size, target[1], target[2])]

\* the step calls into Pillow for this image and these parameters
StageApplies(stage, image, params) ==
    CASE stage = "decode" -> TRUE
      [] stage = "normalize" -> NeedsNormalize(image, params)
      [] stage = "resize" -> ResizeApplies(image, params)
      [] stage = "rotate" -> ParamGet(params, "rotate", 0) # 0
      [] stage = "flip" -> ParamGet(params, "flip", FALSE)
      [] stage = "flop" -> ParamGet(params, "flop", FALSE)
      [] stage = "grayscale" -> ParamGet(params, "grayscale", FALSE)
      [] stage = "blur" -> BlurTruthy(params)
      [] stage = "encode" -> TRUE

\* what the step makes of the image when Pillow succeeds
StageResult(stage, image, params) ==
    CASE stage = "normalize" -> [image EXCEPT !.mode = "RGB"]
      [] stage = "resize" -> ApplyResize(image, params)
      [] stage = "rotate" ->
            IF params["rotate"] \in {90, 270}
            THEN [image EXCEPT !.size = <<image.size[2], image.size[1]>>,
                               !.effects = @ \cup {"rotate"}]
            ELSE [image EXCEPT !.effects = @ \cup {"rotate"}]
      [] stage = "grayscale" ->
            [image EXCEPT !.mode =
                              IF ParamGet(params, "format", F_jpeg) \in {F_jpeg, F_jpg, F_webp}
                              THEN "RGB" ELSE "L",
                          !.effects = @ \cup {"grayscale"}]
      [] OTHER -> [image EXCEPT !.effects = @ \cup {stage}]

\* process_image lines 236-252: the arguments of Image.save and its bytes
SaveImage(image, params) ==
    LET format_value == ParamGet(params, "format", F_jpeg)
        output_format ==
            CASE format_value \in {F_jpeg, F_jpg} -> "JPEG"
              [] format_value = F_png -> "PNG"
              [] format_value = F_webp -> "WEBP"
              [] OTHER -> "AVIF"
        quality == ParamGet(params, "quality", 85)
        setting == IF output_format \in {"JPEG", "WEBP"} THEN quality
                   ELSE IF output_format = "PNG" THEN 6 ELSE 0
    IN  EncodeImage(image, output_format, setting)

\* the steps after Image.open, run in order on the opened image; fault_in is the
\* step at which Pillow raises ("none": it never does)
RECURSIVE RunStages(_, _, _, _)
RunStages(stages, image, params, fault_in) ==
    IF stages = <<>> THEN [exc |-> "none", bytes |-> <<>>, stage |-> "none"]
    ELSE LET stage == Head(stages) IN
         IF StageApplies(stage, image, params) /\ fault_in = stage
         THEN [exc |-> "Exception", bytes |-> <<>>, stage |-> stage]
         ELSE IF stage = "encode"
         THEN [exc |-> "none", bytes |-> SaveImage(image, params), stage |-> "none"]
         ELSE RunStages(Tail(stages),
                        IF StageApplies(stage, image, params)
                        THEN StageResult(stage, image, params) ELSE image,
                        params, fault_in)

\* the steps between Image.open and Image.save that called into Pillow, in the
\* order they ran
RECURSIVE AppliedStages(_, _, _)
AppliedStages(stages, image, params) ==
    IF stages = <<>> THEN <<>>
    ELSE LET stage == Head(stages) IN
         IF stage = "encode" THEN <<>>
         ELSE IF StageApplies(stage, image, params)
         THEN <<stage>> \o AppliedStages(Tail(stages), StageResult(stage, image, params), params)
         ELSE AppliedStages(Tail(stages), image, params)

\* the try block of process_image (lines 204-263)
ProcessImageBody(image_bytes_in, params, fault_in) ==
    LET opened == OpenImage(image_bytes_in) IN
    IF ~opened.ok \/ fault_in = "decode"
    THEN [exc |-> "Exception", bytes |-> <<>>, stage |-> "decode"]
    ELSE RunStages(Tail(PipelineStages), opened.image, params, fault_in)

\* A variant whose except clause lets the exception through
process_image_Reraise(image_bytes_in, params, fault_in) ==
    IF params = EmptyDict THEN [exc |-> "none", bytes |-> image_bytes_in]
    ELSE LET r == ProcessImageBody(image_bytes_in, params, fault_in) IN
         IF r.exc # "none" THEN [exc |-> r.exc, bytes |-> <<>>]
         ELSE [exc |-> "none", bytes |-> r.bytes]

\* process_image: the input bytes when there is nothing to do or when any
\* step raised, otherwise the saved bytes
process_image(image_bytes_in, params, fault_in) ==
    IF params = EmptyDict THEN [exc |-> "none", bytes |-> image_bytes_in]
    ELSE LET r == ProcessImageBody(image_bytes_in, params, fault_in) IN
         IF r.exc # "none" THEN [exc |-> "none", bytes |-> image_bytes_in]
         ELSE [exc |-> "none", bytes |-> r.bytes]

-----------------------------------------------------------------------------
(* The pipeline on its own: objects, requests and library faults *)

\* the byte strings the pipeline is given: image files and bytes that are none
ObjectPool ==
    { <<"JPEG">>,
      <<"JPEG", "RGB", 0, 2, 85, {}>>,
      <<"JPEG", "RGB", 4, 2, 85, {}>>,
      <<"PNG", "RGBA", 3, 3, 6, {}>>,
      <<"PNG", "P", 5, 2, 6, {}>> }

\* the query strings whose validated parameters the pipeline is given
RequestPool ==
    { <<"w", "=", "2">>,
      <<"h", "=", "1", "&", "f", "i", "t", "=", "c", "o", "v", "e", "r">>,
      <<"w", "=", "1", "&", "h", "=", "2", "&", "f", "i", "t", "=", "f", "i", "l", "l">>,
      <<"f", "=", "p", "n", "g", "&", "g", "r", "a", "y", "s", "c", "a", "l", "e", "=", "1">>,
      <<"r", "=", "9", "0", "&", "f", "l", "i", "p", "=", "1", "&", "f", "l", "o", "p", "=", "1">>,
      <<"b", "l", "u", "r", "=", "n", "a", "n", "&", "q", "=", "5", "0">>,
      <<"f", "=", "a", "v", "i", "f", "&", "b", "l", "u", "r", "=", "0">> }

Faults == {PipelineStages[i] : i \in 1..Len(PipelineStages)}

NoImageResult == [exc |-> "unset", bytes |-> <<>>]

\* the pipeline before a call, the object store holding bytes
PipelineHolding(bytes) ==
    /\ image_bytes = bytes
    /\ transform_params = EmptyDict
    /\ fault = "none"
    /\ pres = NoImageResult
    /\ ppc = "build"

\* before any object is stored the pipeline is given the empty byte string
IdleP == PipelineHolding(<<>>)

\* the stored object is given
ChooseObject(bytes) ==
    /\ ppc = "build"
    /\ image_bytes = <<>>
    /\ image_bytes' = bytes
    /\ UNCHANGED <<transform_params, fault, pres, ppc>>

\* the request is validated (lambda_handler lines 80-84)
ChooseRequest(qs) ==
    /\ ppc = "build"
    /\ transform_params = EmptyDict
    /\ \E v \in {validate_transform_params(parse_query_parameters(qs))} :
           /\ v.exc = "none" /\ v.params # EmptyDict
           /\ transform_params' = v.params
    /\ UNCHANGED <<image_bytes, fault, pres, ppc>>

\* the validated parameters are given as they are
ChooseParams(params) ==
    /\ ppc = "build"
    /\ transform_params = EmptyDict
    /\ transform_params' = params
    /\ UNCHANGED <<image_bytes, fault, pres, ppc>>

\* Pillow will raise at the given step
InjectFault(stage) ==
    /\ ppc = "build"
    /\ fault = "none"
    /\ fault' = stage
    /\ UNCHANGED <<image_bytes, transform_params, pres, ppc>>

\* fetch_and_process_image line 158: process_image(original_image_bytes, transform_params)
ProcessImage ==
    /\ ppc = "build"
    /\ pres' = process_image(image_bytes, transform_params, fault)
    /\ ppc' = "processed"
    /\ UNCHANGED <<image_bytes, transform_params, fault>>

-----------------------------------------------------------------------------
(* quality_optimizer.py: QualityOptimizer *)

HIGH_QUALITY_THRESHOLD == 90
SMALL_THUMBNAIL_SIZE == 300
LARGE_IMAGE_SIZE == 1200

\* QualityProfile
QualityProfiles == {"HIGH", "STANDARD", "OPTIMIZED"}

\* QUALITY_SETTINGS: profile -> format -> base quality
QUALITY_SETTINGS ==
    [profile \in QualityProfiles |->
        CASE profile = "HIGH" -> [jpeg |-> 90, webp |-> 85, avif |-> 70]
          [] profile = "STANDARD" -> [jpeg |-> 85, webp |-> 80, avif |-> 60]
          [] OTHER -> [jpeg |-> 75, webp |-> 70, avif |-> 50]]

\* PNG_COMPRESSION_LEVELS: profile -> compress_level
PNG_COMPRESSION_LEVELS ==
    [profile \in QualityProfiles |->
        CASE profile = "HIGH" -> 6
          [] profile = "STANDARD" -> 6
          [] OTHER -> 9]

\* _normalize_format: lower case, and jpg is jpeg
NormalizeFormat(image_format_in) ==
    LET format_lower == Lower(image_format_in) IN
    IF format_lower \in {F_jpg, F_jpeg} THEN F_jpeg ELSE format_lower

\* A variant that hands the quality back as it came
ValidateQuality_Unclamped(quality) == quality

\* _validate_quality: max(10, min(100, quality))
ValidateQuality(quality) ==
    LET capped == IF quality < 100 THEN quality ELSE 100 IN
    IF capped > 10 THEN capped ELSE 10

\* A variant that adjusts on the thresholds themselves as well
ApplyDynamicAdjustment_Inclusive(base_quality, file_size, normalized_format) ==
    LET lowered == base_quality - 5
        raised == base_quality + 5
        Max(a, b) == IF a >= b THEN a ELSE b
        Min(a, b) == IF a <= b THEN a ELSE b
    IN  IF file_size >= 2 * 1024 * 1024
        THEN CASE normalized_format = F_jpeg -> Max(lowered, 70)
               [] normalized_format = F_webp -> Max(lowered, 65)
               [] normalized_format = F_avif -> Max(lowered, 45)
               [] OTHER -> base_quality
        ELSE IF file_size <= 50 * 1024
        THEN CASE normalized_format = F_jpeg -> Min(raised, 95)
               [] normalized_format = F_webp -> Min(raised, 90)
               [] normalized_format = F_avif -> Min(raised, 75)
               [] OTHER -> base_quality
        ELSE base_quality

\* _apply_dynamic_adjustment: five less for a file over 2 MiB, five more for
\* a file under 50 KiB, within the floor and the ceiling of the format
ApplyDynamicAdjustment(base_quality, file_size, normalized_format) ==
    LET lowered == base_quality - 5
        raised == base_quality + 5
        Max(a, b) == IF a >= b THEN a ELSE b
        Min(a, b) == IF a <= b THEN a ELSE b
    IN  IF file_size > 2 * 1024 * 1024
        THEN CASE normalized_format = F_jpeg -> Max(lowered, 70)
               [] normalized_format = F_webp -> Max(lowered, 65)
               [] normalized_format = F_avif -> Max(lowered, 45)
               [] OTHER -> base_quality
        ELSE IF file_size < 50 * 1024
        THEN CASE normalized_format = F_jpeg -> Min(raised, 95)
               [] normalized_format = F_webp -> Min(raised, 90)
               [] normalized_format = F_avif -> Min(raised, 75)
               [] OTHER -> base_quality
        ELSE base_quality

\* QUALITY_SETTINGS[profile].get(normalized_format, 85)
BaseQuality(profile, normalized_format) ==
    CASE normalized_format = F_jpeg -> QUALITY_SETTINGS[profile].jpeg
      [] normalized_format = F_webp -> QUALITY_SETTINGS[profile].webp
      [] normalized_format = F_avif -> QUALITY_SETTINGS[profile].avif
      [] OTHER -> 85

\* A variant that takes a custom quality of 0 for none at all
get_optimal_quality_TruthyCustom(default, image_format_in, profile_in, custom, size_hint) ==
    IF custom.has /\ custom.val # 0 THEN ValidateQuality(custom.val)
    ELSE LET normalized_format == NormalizeFormat(image_format_in)
             profile == IF profile_in.has THEN profile_in.val ELSE default
             base_quality == BaseQuality(profile, normalized_format)
         IN  IF normalized_format = F_png THEN PNG_COMPRESSION_LEVELS[profile]
             ELSE IF size_hint.has
             THEN ValidateQuality(
                      ApplyDynamicAdjustment(base_quality, size_hint.val, normalized_format))
             ELSE ValidateQuality(base_quality)

\* get_optimal_quality of an optimizer whose default profile is default;
\* profile_in is NoProfile or Some(profile), custom and size_hint are NoNumber
\* or Some(number)
get_optimal_quality(default, image_format_in, profile_in, custom, size_hint) ==
    IF custom.has THEN ValidateQuality(custom.val)
    ELSE LET normalized_format == NormalizeFormat(image_format_in)
             profile == IF profile_in.has THEN profile_in.val ELSE default
             base_quality == BaseQuality(profile, normalized_format)
         IN  IF normalized_format = F_png THEN PNG_COMPRESSION_LEVELS[profile]
             ELSE IF size_hint.has
             THEN ValidateQuality(
                      ApplyDynamicAdjustment(base_quality, size_hint.val, normalized_format))
             ELSE ValidateQuality(base_quality)

\* A variant that looks at the dimensions before the quality
determine_quality_profile_from_params_SizeFirst(default, params) ==
    LET width == ParamGet(params, "width", 0)
        height == ParamGet(params, "height", 0)
    IN  IF (width # 0 /\ width <= SMALL_THUMBNAIL_SIZE)
               \/ (height # 0 /\ height <= SMALL_THUMBNAIL_SIZE)
        THEN "OPTIMIZED"
        ELSE IF ParamGet(params, "quality", 0) >= HIGH_QUALITY_THRESHOLD THEN "HIGH"
        ELSE IF (width # 0 /\ width >= LARGE_IMAGE_SIZE)
               \/ (height # 0 /\ height >= LARGE_IMAGE_SIZE)
        THEN "STANDARD"
        ELSE default

\* determine_quality_profile_from_params: a dimension of 0 counts as absent
determine_quality_profile_from_params(default, params) ==
    LET width == ParamGet(params, "width", 0)
        height == ParamGet(params, "height", 0)
    IN  IF ParamGet(params, "quality", 0) >= HIGH_QUALITY_THRESHOLD THEN "HIGH"
        ELSE IF (width # 0 /\ width <= SMALL_THUMBNAIL_SIZE)
               \/ (height # 0 /\ height <= SMALL_THUMBNAIL_SIZE)
        THEN "OPTIMIZED"
        ELSE IF (width # 0 /\ width >= LARGE_IMAGE_SIZE)
               \/ (height # 0 /\ height >= LARGE_IMAGE_SIZE)
        THEN "STANDARD"
        ELSE default

-----------------------------------------------------------------------------
(* The quality policy on its own: arguments and calls *)

\* None where a profile and where a number may be given
NoProfile == [has |-> FALSE, val |-> "None"]

NoNumber == [has |-> FALSE, val |-> 0]

\* format names as callers write them
FormatPool ==
    { F_jpeg, <<"J", "P", "G">>, F_png, <<"P", "N", "G">>, <<"W", "e", "b", "P">>,
      F_avif, <<"g", "i", "f">> }

ProfilePool == {NoProfile} \cup {Some(p) : p \in QualityProfiles}

CustomQualityPool == {NoNumber} \cup {Some(q) : q \in {0 - 5, 0, 9, 10, 11, 95, 100, 101}}

\* byte lengths around 50 KiB and 2 MiB
SizeHintPool ==
    {NoNumber} \cup {Some(n) : n \in {0, 50 * 1024 - 1, 50 * 1024, 50 * 1024 + 1,
                                  2 * 1024 * 1024 - 1, 2 * 1024 * 1024,
                                  2 * 1024 * 1024 + 1, 3 * 1024 * 1024}}

\* validated parameters with a quality, a width and a height, each optional
\* (0: absent)
ProfileParams(quality, width, height) ==
    LET with_quality == IF quality = 0 THEN EmptyDict
                        ELSE DictSet(EmptyDict, "quality", quality)
        with_width == IF width = 0 THEN with_quality
                      ELSE DictSet(with_quality, "width", width)
    IN  IF height = 0 THEN with_width ELSE DictSet(with_width, "height", height)

ProfileParamsPool ==
    { ProfileParams(quality, width, height) :
          quality \in {0, 89, 90, 95},
          width \in {0, 200, 300, 301, 1199, 1200, 1500},
          height \in {0, 300, 301, 1199, 1200, 1500} }

NoQualityResult == [quality |-> 0, profile |-> "unset"]

\* a QualityOptimizer constructed with the default profile, before any call
OptimizerConstructed(default) ==
    /\ default_profile = default
    /\ image_format = F_jpeg
    /\ quality_profile = NoProfile
    /\ custom_quality = NoNumber
    /\ file_size_hint = NoNumber
    /\ profile_params = EmptyDict
    /\ qres = NoQualityResult
    /\ qpc = "build"

IdleQ == OptimizerConstructed("STANDARD")

\* the caller settles the arguments of get_optimal_quality
ChooseQualityArguments(format, profile, custom, size_hint) ==
    /\ qpc = "build"
    /\ image_format' = format
    /\ quality_profile' = profile
    /\ custom_quality' = custom
    /\ file_size_hint' = size_hint
    /\ qpc' = "arguments"
    /\ UNCHANGED <<default_profile, profile_params, qres>>

\* the caller settles the argument of determine_quality_profile_from_params
ChooseProfileParams(params) ==
    /\ qpc = "build"
    /\ profile_params' = params
    /\ qpc' = "params"
    /\ UNCHANGED <<default_profile, image_format, quality_profile, custom_quality,
                   file_size_hint, qres>>

\* get_optimal_quality(image_format, quality_profile, custom_quality, file_size_hint)
GetOptimalQuality ==
    /\ qpc = "arguments"
    /\ qres' = [qres EXCEPT !.quality =
                   get_optimal_quality(default_profile, image_format, quality_profile,
                                       custom_quality, file_size_hint)]
    /\ qpc' = "quality"
    /\ UNCHANGED <<default_profile, image_format, quality_profile, custom_quality,
                   file_size_hint, profile_params>>

\* determine_quality_profile_from_params(params)
DetermineQualityProfile ==
    /\ qpc = "params"
    /\ qres' = [qres EXCEPT !.profile =
                   determine_quality_profile_from_params(default_profile, profile_params)]
    /\ qpc' = "profile"
    /\ UNCHANGED <<default_profile, image_format, quality_profile, custom_quality,
                   file_size_hint, profile_params>>

-----------------------------------------------------------------------------
(* The secret cache over time *)

MaxEvents == 5

\* the time between two calls, in half seconds: half a second, and half a
\* second less than, exactly and half a second more than the time to live
ElapsePool ==
    {1, 2 * SECRET_CACHE_TTL - 1, 2 * SECRET_CACHE_TTL, 2 * SECRET_CACHE_TTL + 1}

IdleC == secret_log = <<>>

NoCall ==
    [exc |-> "", status |-> 0, secret |-> <<>>, cache |-> None, cache_time |-> None,
     store_calls |-> 0, lookups |-> <<>>]

\* an entry of secret_log: the time, the state of the deployment, what
\* _get_secret gave and the cache as the call found it
LogEntry(kind, at, store, g, cache_before, cache_time_before) ==
    [kind |-> kind, at |-> at, store |-> store, exc |-> g.exc, status |-> g.status,
     secret |-> g.secret, lookups |-> g.lookups,
     cache_before |-> cache_before, cache_time_before |-> cache_time_before,
     cache_after |-> g.cache, cache_time_after |-> g.cache_time]

\* time passes between two calls
Elapse(d) ==
    /\ Len(secret_log) < MaxEvents
    /\ IF secret_log = <<>> THEN TRUE ELSE secret_log[Len(secret_log)].kind = "call"
    /\ clock' = clock + d
    /\ secret_log' =
           Append(secret_log,
                  LogEntry("elapse", clock + d, "none",
                           [NoCall EXCEPT !.cache = secret_cache,
                                          !.cache_time = secret_cache_time],
                           secret_cache, secret_cache_time))
    /\ UNCHANGED <<request_url, secret_cache, secret_cache_time,
                   is_signature_enabled, sres, spc, client>>

\* validate_signature line 131: secret = self._get_secret().  The secret
\* name is configuration: a deployment has it on every call or on none.
CallGetSecret(store) ==
    /\ Len(secret_log) < MaxEvents
    /\ \A i \in 1..Len(secret_log) :
           secret_log[i].kind = "call" =>
               (SecretNameConfigured(secret_log[i].store) <=> SecretNameConfigured(store))
    /\ \E g \in {GetSecret(secret_cache, secret_cache_time, clock, store)} :
           /\ secret_cache' = g.cache
           /\ secret_cache_time' = g.cache_time
           /\ secret_log' =
                  Append(secret_log,
                         LogEntry("call", clock, store, g, secret_cache, secret_cache_time))
    /\ UNCHANGED <<request_url, clock, is_signature_enabled, sres, spc, client>>

-----------------------------------------------------------------------------
(* _get_secret called twice at once: every read and write of the two cache
   attributes is a step of its own, as no lock is held (lines 41-73) *)

Callers == {1, 2}

MaxTimeSteps == 2

\* time between two steps, in half seconds: half a second, and half a second
\* less than the time to live
TimeStepPool == {1, 2 * SECRET_CACHE_TTL - 1}

\* what the store holds when a caller looks the secret up
LookupStates == {"json", "rotated", "down"}

\* a call before its first statement; origins name the call that wrote what
\* the caller read (0: a call that ended before both)
CallerIdle ==
    [pc |-> "idle", now |-> 0, secret |-> <<>>, via |-> "none",
     time_origin |-> 0, value_origin |-> 0]

IdleT ==
    /\ callers = [c \in Callers |-> CallerIdle]
    /\ cache_origin = [value |-> 0, time |-> 0]
    /\ time_steps = 0

\* time passes between two statements
TimePasses(d) ==
    /\ time_steps < MaxTimeSteps
    /\ clock' = clock + d
    /\ time_steps' = time_steps + 1
    /\ UNCHANGED <<request_url, secret_cache, secret_cache_time,
                   is_signature_enabled, sres, spc, client>>
    /\ UNCHANGED <<callers, cache_origin>>

\* line 41: current_time = time.time()
ReadTime(c) ==
    /\ callers[c].pc = "idle"
    /\ callers' = [callers EXCEPT ![c].pc = "check_cache", ![c].now = clock]
    /\ UNCHANGED <<svars, cache_origin, time_steps>>

\* line 45: self._secret_cache is read for its truth value
CheckCache(c) ==
    /\ callers[c].pc = "check_cache"
    /\ callers' = [callers EXCEPT ![c].pc =
                      IF secret_cache.has /\ secret_cache.val # <<>>
                      THEN "check_time" ELSE "lookup"]
    /\ UNCHANGED <<svars, cache_origin, time_steps>>

\* line 46: self._secret_cache_time is read for its truth value
CheckTime(c) ==
    /\ callers[c].pc = "check_time"
    /\ callers' = [callers EXCEPT ![c].pc =
                      IF secret_cache_time.has /\ secret_cache_time.val # 0
                      THEN "compare" ELSE "lookup"]
    /\ UNCHANGED <<svars, cache_origin, time_steps>>

\* line 47: self._secret_cache_time is read again and compared
CompareAge(c) ==
    /\ callers[c].pc = "compare"
    /\ callers' = [callers EXCEPT
                      ![c].pc = IF (callers[c].now - secret_cache_time.val)
                                       < 2 * SECRET_CACHE_TTL
                                THEN "return_cached" ELSE "lookup",
                      ![c].time_origin = cache_origin.time]
    /\ UNCHANGED <<svars, cache_origin, time_steps>>

\* line 49: return self._secret_cache
ReturnCached(c) ==
    /\ callers[c].pc = "return_cached"
    /\ callers' = [callers EXCEPT ![c].pc = "done", ![c].via = "hit",
                                  ![c].secret = secret_cache.val,
                                  ![c].value_origin = cache_origin.value]
    /\ UNCHANGED <<svars, cache_origin, time_steps>>

\* lines 60-66: the two lookups; lines 75-77 when both fail
LookUp(c, store) ==
    /\ callers[c].pc = "lookup"
    /\ \E first \in {StructuredLookup(store)}, second \in {PlainLookup(store)} :
           callers' = [callers EXCEPT
                          ![c].pc = IF first.ok \/ second.ok THEN "write_cache" ELSE "done",
                          ![c].via = IF first.ok \/ second.ok THEN "fetch" ELSE "error",
                          ![c].secret = IF first.ok THEN first.value ELSE second.value]
    /\ UNCHANGED <<svars, cache_origin, time_steps>>

\* line 69: self._secret_cache = secret
WriteCache(c) ==
    /\ callers[c].pc = "write_cache"
    /\ secret_cache' = Some(callers[c].secret)
    /\ cache_origin' = [cache_origin EXCEPT !.value = c]
    /\ callers' = [callers EXCEPT ![c].pc = "write_time"]
    /\ UNCHANGED <<request_url, clock, secret_cache_time, is_signature_enabled,
                   sres, spc, client, time_steps>>

\* line 70: self._secret_cache_time = current_time; line 73: return secret
WriteTime(c) ==
    /\ callers[c].pc = "write_time"
    /\ secret_cache_time' = Some(callers[c].now)
    /\ cache_origin' = [cache_origin EXCEPT !.time = c]
    /\ callers' = [callers EXCEPT ![c].pc = "done"]
    /\ UNCHANGED <<request_url, clock, secret_cache, is_signature_enabled,
                   sres, spc, client, time_steps>>

\* no call has begun
NoCallBegun == \A c \in Callers : callers[c].pc = "idle"

-----------------------------------------------------------------------------
(* index.py: lambda_handler and handle_error *)

HTTP_NOT_FOUND == 404
HTTP_FORBIDDEN == 403
HTTP_INTERNAL_SERVER_ERROR == 500

\* an ImageProcessingError(text, status)
Error(text, status) == [text |-> text, status |-> status]

NoError == Error("", 0)

\* what urllib.request.urlopen(s3_url) meets
Upstream == {"ok", "HTTP404", "HTTP403", "HTTP503", "URLError", "Exception"}

\* fetch_and_process_image lines 162-183: the error raised for a failed fetch
FetchError(upstream) ==
    CASE upstream = "HTTP404" -> Error("Image not found", HTTP_NOT_FOUND)
      [] upstream = "HTTP403" -> Error("Access denied to image", HTTP_FORBIDDEN)
      [] upstream = "HTTP503" ->
            Error("Failed to fetch image: HTTP", HTTP_INTERNAL_SERVER_ERROR)
      [] upstream = "URLError" ->
            Error("Failed to fetch image: Network error", HTTP_INTERNAL_SERVER_ERROR)
      [] OTHER -> Error("Failed to fetch image", HTTP_INTERNAL_SERVER_ERROR)

\* lambda_handler line 80: request_url.split("?", 1)[1] if "?" in request_url else ""
UrlQueryString(url) ==
    IF IndexOf(url, "?") = 0 THEN <<>>
    ELSE SubSeq(url, IndexOf(url, "?") + 1, Len(url))

\* get_content_type(format_param)
get_content_type(format_param) ==
    CASE Lower(format_param) \in {F_jpeg, F_jpg} -> "image/jpeg"
      [] Lower(format_param) = F_png -> "image/png"
      [] Lower(format_param) = F_webp -> "image/webp"
      [] Lower(format_param) = F_avif -> "image/avif"
      [] OTHER -> "image/jpeg"

\* the image get_fallback_image reads from the configured bucket
FallbackImage == <<"JPEG", "RGB", 1, 1, 85, {}>>

\* json.dumps({"error": str(error)}).encode("utf-8")
ErrorBody(error) == <<"error", error.text>>

\* one call of aws_clients.write_get_object_response
Write(source, body, content_type, status_code) ==
    [source |-> source, body |-> body, content_type |-> content_type,
     status_code |-> status_code]

WriteOutcomes == {"ok", "AWSError"}

\* the sink and the log of attempts after a write with the given outcome
SinkAfter(write, outcome) ==
    IF outcome = "ok" THEN Append(sink, write) ELSE sink

AttemptsAfter(write, outcome) ==
    Append(attempts,
           [source |-> write.source, ok |-> outcome = "ok", body |-> write.body,
            content_type |-> write.content_type, status_code |-> write.status_code])

\* handle_error lines 391-399, a variant that goes on after the fallback
\* image was written
AfterFallback_NoReturn(written) == "error_body"

\* handle_error lines 391-399: return once the fallback image is written
AfterFallback(written) == IF written THEN "returned" ELSE "error_body"

\* handle_error lines 407-418, a variant that goes on after the original
\* image was written
AfterOriginal_NoReturn(written) == "error_body"

\* handle_error lines 407-418: return once the original image is written
AfterOriginal(written) == IF written THEN "returned" ELSE "error_body"

\* the URLs clients request: plain, resizing, invalid, and the resizing one
\* signed correctly and signed wrongly for expires=4
SignedUrl(url, mode) ==
    AppendToUrl(AppendToUrl(url, K_expires \o <<"=", "4">>),
                K_signature \o <<"=">> \o ClientSignature(url, 4, mode))

HandlerUrls ==
    { ObjectUrl,
      AppendToUrl(ObjectUrl, <<"w", "=", "2">>),
      AppendToUrl(ObjectUrl, <<"w", "=", "0">>),
      SignedUrl(AppendToUrl(ObjectUrl, <<"w", "=", "2", "&", "f", "=", "p", "n", "g">>),
                "exact"),
      SignedUrl(AppendToUrl(ObjectUrl, <<"w", "=", "2">>), "flipAscii") }

\* the objects the store may hold for the requested key
HandlerObjects ==
    { <<"JPEG">>, <<"JPEG", "RGB", 4, 2, 85, {}>>, <<"PNG", "RGBA", 3, 3, 6, {}>> }

\* the steps at which Pillow may raise during an invocation
HandlerFaults == {"none", "decode", "encode"}

\* the handler after a cold start: fallback_enabled is
\* Config.is_default_fallback_image_enabled
HandlerConstructed(enabled) ==
    /\ hpc = "idle"
    /\ herror = NoError
    /\ sink = <<>>
    /\ attempts = <<>>
    /\ hbody = <<>>
    /\ fallback_enabled = enabled

IdleH == HandlerConstructed(FALSE)

\* lambda_handler lines 59-66: the event is read
HReceive(url) ==
    /\ hpc = "idle"
    /\ request_url' = url
    /\ hpc' = "signature"
    /\ UNCHANGED <<herror, sink, attempts, hbody, fallback_enabled>>
    /\ UNCHANGED <<clock, secret_cache, secret_cache_time, is_signature_enabled,
                   sres, spc, client>>
    /\ UNCHANGED pvars

\* lambda_handler lines 76-77
HSignature(store) ==
    /\ hpc = "signature"
    /\ \E r \in {validate_signature(request_url, is_signature_enabled, clock,
                                     secret_cache, secret_cache_time, store)} :
           /\ secret_cache' = r.cache
           /\ secret_cache_time' = r.cache_time
           /\ IF r.exc = "none"
              THEN hpc' = "validate" /\ herror' = herror
              ELSE hpc' = "handle_error" /\ herror' = Error(r.text, r.status)
    /\ UNCHANGED <<sink, attempts, hbody, fallback_enabled>>
    /\ UNCHANGED <<request_url, clock, is_signature_enabled, sres, spc, client>>
    /\ UNCHANGED pvars

\* lambda_handler lines 80-84, a variant that goes on to the fetch whatever
\* the validator said
HValidate_Proceeds ==
    /\ hpc = "validate"
    /\ \E v \in {validate_transform_params(
                     parse_query_parameters(UrlQueryString(request_url)))} :
           /\ transform_params' = v.params
           /\ hpc' = "fetch" /\ herror' = herror
    /\ UNCHANGED <<sink, attempts, hbody, fallback_enabled>>
    /\ UNCHANGED <<image_bytes, fault, pres, ppc>>
    /\ UNCHANGED svars

\* lambda_handler lines 80-84
HValidate ==
    /\ hpc = "validate"
    /\ \E v \in {validate_transform_params(
                     parse_query_parameters(UrlQueryString(request_url)))} :
           IF v.exc = "none"
           THEN /\ transform_params' = v.params
                /\ hpc' = "fetch" /\ herror' = herror
           ELSE /\ transform_params' = transform_params
                /\ hpc' = "handle_error"
                /\ herror' = Error(v.message.text, v.status)
    /\ UNCHANGED <<sink, attempts, hbody, fallback_enabled>>
    /\ UNCHANGED <<image_bytes, fault, pres, ppc>>
    /\ UNCHANGED svars

\* lambda_handler line 89: fetch_and_process_image(s3_url, transform_params)
HFetchAndProcess(upstream, stage) ==
    /\ hpc = "fetch"
    /\ IF upstream = "ok"
       THEN /\ hbody' = process_image(image_bytes, transform_params, stage).bytes
            /\ hpc' = "respond" /\ herror' = herror
       ELSE /\ hbody' = hbody
            /\ hpc' = "handle_error" /\ herror' = FetchError(upstream)
    /\ UNCHANGED <<sink, attempts, fallback_enabled>>
    /\ UNCHANGED <<svars, pvars>>

\* lambda_handler lines 92-123, a variant in which a statement after the
\* write raises, so that the handler of line 118 runs after a written response
HRespond_RaisesAfterWrite(outcome) ==
    /\ hpc = "respond"
    /\ LET write == Write("response", hbody,
                          get_content_type(ParamGet(transform_params, "format", F_jpeg)),
                          200)
       IN  /\ sink' = SinkAfter(write, outcome)
           /\ attempts' = AttemptsAfter(write, outcome)
    /\ hpc' = "handle_error"
    /\ herror' = Error("Service error", HTTP_INTERNAL_SERVER_ERROR)
    /\ UNCHANGED <<hbody, fallback_enabled>>
    /\ UNCHANGED <<svars, pvars>>

\* lambda_handler lines 92-100, and lines 114-123 when the write fails
HRespond(outcome) ==
    /\ hpc = "respond"
    /\ LET write == Write("response", hbody,
                          get_content_type(ParamGet(transform_params, "format", F_jpeg)),
                          200)
       IN  /\ sink' = SinkAfter(write, outcome)
           /\ attempts' = AttemptsAfter(write, outcome)
    /\ IF outcome = "ok"
       THEN hpc' = "returned" /\ herror' = herror
       ELSE hpc' = "handle_error"
            /\ herror' = Error("Service error", HTTP_INTERNAL_SERVER_ERROR)
    /\ UNCHANGED <<hbody, fallback_enabled>>
    /\ UNCHANGED <<svars, pvars>>

\* handle_error lines 385-403: the fallback image, for an error of status 500
\* and above when one is configured; fetched is FALSE when get_fallback_image
\* returns None
HFallback(fetched, outcome) ==
    /\ hpc = "handle_error"
    /\ fallback_enabled /\ herror.status >= HTTP_INTERNAL_SERVER_ERROR
    /\ IF fetched
       THEN LET write == Write("fallback", FallbackImage, "image/jpeg", 200) IN
            /\ sink' = SinkAfter(write, outcome)
            /\ attempts' = AttemptsAfter(write, outcome)
            /\ hpc' = AfterFallback(outcome = "ok")
       ELSE /\ UNCHANGED <<sink, attempts>>
            /\ hpc' = "error_body"
    /\ UNCHANGED <<herror, hbody, fallback_enabled>>
    /\ UNCHANGED <<svars, pvars>>

\* handle_error lines 406-422, a variant that tries the original image for
\* every error
HOriginal_AnyStatus(upstream, outcome) ==
    /\ hpc = "handle_error"
    /\ IF upstream = "ok"
       THEN LET write == Write("original", image_bytes, "application/octet-stream", 200) IN
            /\ sink' = SinkAfter(write, outcome)
            /\ attempts' = AttemptsAfter(write, outcome)
            /\ hpc' = AfterOriginal(outcome = "ok")
       ELSE /\ UNCHANGED <<sink, attempts>>
            /\ hpc' = "error_body"
    /\ UNCHANGED <<herror, hbody, fallback_enabled>>
    /\ UNCHANGED <<svars, pvars>>

\* handle_error lines 406-422: the original image, for an error below 500
HOriginal(upstream, outcome) ==
    /\ hpc = "handle_error"
    /\ herror.status < HTTP_INTERNAL_SERVER_ERROR
    /\ IF upstream = "ok"
       THEN LET write == Write("original", image_bytes, "application/octet-stream", 200) IN
            /\ sink' = SinkAfter(write, outcome)
            /\ attempts' = AttemptsAfter(write, outcome)
            /\ hpc' = AfterOriginal(outcome = "ok")
       ELSE /\ UNCHANGED <<sink, attempts>>
            /\ hpc' = "error_body"
    /\ UNCHANGED <<herror, hbody, fallback_enabled>>
    /\ UNCHANGED <<svars, pvars>>

\* handle_error lines 424-438: the JSON error body as the last resort; a
\* failure of this write is logged and the handler returns
HErrorBody(outcome) ==
    /\ \/ hpc = "error_body"
       \/ /\ hpc = "handle_error"
          /\ herror.status >= HTTP_INTERNAL_SERVER_ERROR /\ ~fallback_enabled
    /\ LET write == Write("error", ErrorBody(herror), "application/json", herror.status) IN
       /\ sink' = SinkAfter(write, outcome)
       /\ attempts' = AttemptsAfter(write, outcome)
    /\ hpc' = "returned"
    /\ UNCHANGED <<herror, hbody, fallback_enabled>>
    /\ UNCHANGED <<svars, pvars>>

InitH ==
    /\ IdleV /\ IdleQ /\ IdleC /\ IdleT
    /\ \E enabled \in BOOLEAN : GateConstructed(enabled)
    /\ \E bytes \in HandlerObjects : PipelineHolding(bytes)
    /\ \E enabled \in BOOLEAN : HandlerConstructed(enabled)

NextH ==
    \/ \E url \in HandlerUrls : HReceive(url) /\ UNCHANGED <<vvars, qvars, cvars, tvars>>
    \/ \E store \in StoreModes : HSignature(store) /\ UNCHANGED <<vvars, qvars, cvars, tvars>>
    \/ HValidate /\ UNCHANGED <<vvars, qvars, cvars, tvars>>
    \/ \E upstream \in Upstream, stage \in HandlerFaults :
           HFetchAndProcess(upstream, stage) /\ UNCHANGED <<vvars, qvars, cvars, tvars>>
    \/ \E outcome \in WriteOutcomes : HRespond(outcome) /\ UNCHANGED <<vvars, qvars, cvars, tvars>>
    \/ \E fetched \in BOOLEAN, outcome \in WriteOutcomes :
           HFallback(fetched, outcome) /\ UNCHANGED <<vvars, qvars, cvars, tvars>>
    \/ \E upstream \in Upstream, outcome \in WriteOutcomes :
           HOriginal(upstream, outcome) /\ UNCHANGED <<vvars, qvars, cvars, tvars>>
    \/ \E outcome \in WriteOutcomes : HErrorBody(outcome) /\ UNCHANGED <<vvars, qvars, cvars, tvars>>

SpecH == InitH /\ [][NextH]_vars

-----------------------------------------------------------------------------
(* The quality policy as a specification *)

InitQ ==
    /\ IdleV /\ IdleS /\ IdleP /\ IdleH /\ IdleC /\ IdleT
    /\ \E default \in QualityProfiles : OptimizerConstructed(default)

NextQ ==
    \/ \E format \in FormatPool, profile \in ProfilePool,
          custom \in CustomQualityPool, size_hint \in SizeHintPool :
           ChooseQualityArguments(format, profile, custom, size_hint)
               /\ UNCHANGED <<vvars, svars, pvars, hvars, cvars, tvars>>
    \/ \E params \in ProfileParamsPool :
           ChooseProfileParams(params) /\ UNCHANGED <<vvars, svars, pvars, hvars, cvars, tvars>>
    \/ GetOptimalQuality /\ UNCHANGED <<vvars, svars, pvars, hvars, cvars, tvars>>
    \/ DetermineQualityProfile /\ UNCHANGED <<vvars, svars, pvars, hvars, cvars, tvars>>

SpecQ == InitQ /\ [][NextQ]_vars

-----------------------------------------------------------------------------
(* Resizing on its own: the pipeline on requests that only resize *)

\* the sizes of the stored images
ResizeSources == {<<4, 2>>, <<3, 3>>, <<2, 5>>, <<1, 7>>, <<7, 1>>, <<6, 4>>}

ResizeObjects == {<<"JPEG", "RGB", size[1], size[2], 85, {}>> : size \in ResizeSources}

FitPool ==
    { <<>>, <<"c", "o", "n", "t", "a", "i", "n">>, <<"c", "o", "v", "e", "r">>,
      <<"f", "i", "l", "l">>, <<"i", "n", "s", "i", "d", "e">>,
      <<"o", "u", "t", "s", "i", "d", "e">> }

\* validated parameters asking for a box and, unless fit is empty, a fit
ResizeParams(width, height, fit) ==
    LET box == DictSet(DictSet(EmptyDict, "width", width), "height", height)
    IN  IF fit = <<>> THEN box ELSE DictSet(box, "fit", fit)

ResizeRequests ==
    {ResizeParams(width, height, fit) : width \in 1..8, height \in 1..8, fit \in FitPool}

\* validated parameters asking for one axis only and, unless fit is empty, a fit
OneAxisParams(axis, length, fit) ==
    LET asked == DictSet(EmptyDict, axis, length)
    IN  IF fit = <<>> THEN asked ELSE DictSet(asked, "fit", fit)

OneAxisRequests ==
    {OneAxisParams(axis, length, fit) :
        axis \in {"width", "height"}, length \in 1..8, fit \in FitPool}

\* an image with transparency, for the colour normalization to apply
StageObjects == { <<"PNG", "RGBA", 3, 2, 6, {}>> }

\* the parts of a query that asks for the stages after the resize
RotatePool ==
    { <<>>, <<"&", "r", "=", "0">>, <<"&", "r", "=", "9", "0">>,
      <<"&", "r", "=", "1", "8", "0">>, <<"&", "r", "=", "2", "7", "0">> }

FlipPool == { <<>>, <<"&", "f", "l", "i", "p", "=", "1">>, <<"&", "f", "l", "i", "p", "=", "0">> }

FlopPool == { <<>>, <<"&", "f", "l", "o", "p", "=", "1">> }

GrayscalePool == { <<>>, <<"&", "g", "r", "a", "y", "s", "c", "a", "l", "e", "=", "1">> }

BlurPool == { <<>>, <<"&", "b", "l", "u", "r", "=", "2">> }

BoxPool ==
    { <<>>,
      <<"&", "w", "=", "3", "&", "h", "=", "2", "&", "f", "i", "t", "=", "f", "i", "l", "l">> }

\* the query strings made of these parts
StageQueries ==
    { LET parts == box \o rotate \o flip \o flop \o gray \o blur
      IN  IF parts = <<>> THEN parts ELSE Tail(parts) :
          box \in BoxPool, rotate \in RotatePool, flip \in FlipPool,
          flop \in FlopPool, gray \in GrayscalePool, blur \in BlurPool }

\* their validated parameters (lambda_handler lines 80-84)
StageRequests ==
    { validate_transform_params(parse_query_parameters(qs)).params : qs \in StageQueries }

InitR ==
    /\ IdleV /\ IdleS /\ IdleH /\ IdleQ /\ IdleC /\ IdleT
    /\ \E bytes \in ResizeObjects \cup StageObjects : PipelineHolding(bytes)

NextR ==
    \/ \E params \in ResizeRequests \cup StageRequests \cup OneAxisRequests :
           ChooseParams(params) /\ UNCHANGED <<vvars, svars, hvars, qvars, cvars, tvars>>
    \/ ProcessImage /\ UNCHANGED <<vvars, svars, hvars, qvars, cvars, tvars>>

SpecR == InitR /\ [][NextR]_vars

-----------------------------------------------------------------------------
(* The secret cache as a specification *)

InitC ==
    /\ IdleV /\ IdleP /\ IdleH /\ IdleQ /\ IdleC /\ IdleT
    /\ GateConstructed(TRUE)

NextC ==
    \/ \E d \in ElapsePool : Elapse(d) /\ UNCHANGED <<vvars, pvars, hvars, qvars, tvars>>
    \/ \E store \in SecretStates :
           CallGetSecret(store) /\ UNCHANGED <<vvars, pvars, hvars, qvars, tvars>>

SpecC == InitC /\ [][NextC]_vars

-----------------------------------------------------------------------------
(* Two concurrent _get_secret calls as a specification *)

InitT ==
    /\ IdleV /\ IdleP /\ IdleH /\ IdleQ /\ IdleC /\ IdleT
    /\ GateConstructed(TRUE)

NextT ==
    \/ \E store \in StoreModes :
           PriorFetch(store) /\ NoCallBegun
               /\ UNCHANGED <<vvars, pvars, hvars, qvars, cvars, tvars>>
    \/ \E d \in TimeStepPool :
           TimePasses(d) /\ UNCHANGED <<vvars, pvars, hvars, qvars, cvars>>
    \/ \E c \in Callers : ReadTime(c) /\ UNCHANGED <<vvars, pvars, hvars, qvars, cvars>>
    \/ \E c \in Callers : CheckCache(c) /\ UNCHANGED <<vvars, pvars, hvars, qvars, cvars>>
    \/ \E c \in Callers : CheckTime(c) /\ UNCHANGED <<vvars, pvars, hvars, qvars, cvars>>
    \/ \E c \in Callers : CompareAge(c) /\ UNCHANGED <<vvars, pvars, hvars, qvars, cvars>>
    \/ \E c \in Callers : ReturnCached(c) /\ UNCHANGED <<vvars, pvars, hvars, qvars, cvars>>
    \/ \E c \in Callers, store \in LookupStates :
           LookUp(c, store) /\ UNCHANGED <<vvars, pvars, hvars, qvars, cvars>>
    \/ \E c \in Callers : WriteCache(c) /\ UNCHANGED <<vvars, pvars, hvars, qvars, cvars>>
    \/ \E c \in Callers : WriteTime(c) /\ UNCHANGED <<vvars, pvars, hvars, qvars, cvars>>

SpecT == InitT /\ [][NextT]_vars

-----------------------------------------------------------------------------
(* The pipeline as a specification *)

InitP == IdleV /\ IdleS /\ IdleP /\ IdleH /\ IdleQ /\ IdleC /\ IdleT

NextP ==
    \/ \E bytes \in ObjectPool : ChooseObject(bytes) /\ UNCHANGED <<vvars, svars, hvars, qvars, cvars, tvars>>
    \/ \E qs \in RequestPool : ChooseRequest(qs) /\ UNCHANGED <<vvars, svars, hvars, qvars, cvars, tvars>>
    \/ \E stage \in Faults : InjectFault(stage) /\ UNCHANGED <<vvars, svars, hvars, qvars, cvars, tvars>>
    \/ ProcessImage /\ UNCHANGED <<vvars, svars, hvars, qvars, cvars, tvars>>

SpecP == InitP /\ [][NextP]_vars

-----------------------------------------------------------------------------
(* The signature gate as a specification *)

InitS ==
    /\ IdleV /\ IdleP /\ IdleH /\ IdleQ /\ IdleC /\ IdleT
    /\ \E enabled \in BOOLEAN : GateConstructed(enabled)

NextS ==
    \/ Tick /\ UNCHANGED <<vvars, pvars, hvars, qvars, cvars, tvars>>
    \/ \E store \in StoreModes : PriorFetch(store) /\ UNCHANGED <<vvars, pvars, hvars, qvars, cvars, tvars>>
    \/ \E t \in SigParamPool : AddParam(t) /\ UNCHANGED <<vvars, pvars, hvars, qvars, cvars, tvars>>
    \/ \E mode \in SignModes, expires \in SignExpires :
           SignUrl(mode, expires) /\ UNCHANGED <<vvars, pvars, hvars, qvars, cvars, tvars>>
    \/ \E store \in StoreModes : ValidateSignature(store) /\ UNCHANGED <<vvars, pvars, hvars, qvars, cvars, tvars>>

SpecS == InitS /\ [][NextS]_vars

-----------------------------------------------------------------------------
(* The validation harness as a specification *)

InitV == IdleV /\ IdleS /\ IdleP /\ IdleH /\ IdleQ /\ IdleC /\ IdleT

NextV ==
    \/ \E t \in TokenPool : AddToken(t) /\ UNCHANGED <<svars, pvars, hvars, qvars, cvars, tvars>>
    \/ ParseQuery /\ UNCHANGED <<svars, pvars, hvars, qvars, cvars, tvars>>
    \/ ValidateParams /\ UNCHANGED <<svars, pvars, hvars, qvars, cvars, tvars>>

SpecV == InitV /\ [][NextV]_vars

-----------------------------------------------------------------------------
(* Properties of the validator, checked under SpecV *)

Validated == vpc = "validated"

Rejected400(r) == r.exc = "ImageProcessingError" /\ r.status = 400

\* the value denotes an integer in lo..hi
IntegerIn(value, lo, hi) ==
    LET n == ParseInt(value) IN n.ok /\ lo <= n.val /\ n.val <= hi

\* validate_transform_params on the one key k of the raw parameters
ValidatedAlone(k) == validate_transform_params(DictRestrict(raw_params, {k}))

\* C6: validate_transform_params accepts a w (respectively h) value if and
\* only if it is an integer in 1..2000: 2000 is accepted, 2001 and above, 0
\* and negatives are rejected, and every rejection carries status 400.
C6_DimensionBounds ==
    Validated =>
        /\ HasKey(raw_params, K_w) =>
              /\ (ValidatedAlone(K_w).exc = "none") <=> IntegerIn(raw_params[K_w], 1, 2000)
              /\ IntegerIn(raw_params[K_w], 1, 2000) =>
                     ValidatedAlone(K_w).params = [width |-> ParseInt(raw_params[K_w]).val]
              /\ ~IntegerIn(raw_params[K_w], 1, 2000) =>
                     Rejected400(ValidatedAlone(K_w)) /\ Rejected400(vres)
        /\ HasKey(raw_params, K_h) =>
              /\ (ValidatedAlone(K_h).exc = "none") <=> IntegerIn(raw_params[K_h], 1, 2000)
              /\ IntegerIn(raw_params[K_h], 1, 2000) =>
                     ValidatedAlone(K_h).params = [height |-> ParseInt(raw_params[K_h]).val]
              /\ ~IntegerIn(raw_params[K_h], 1, 2000) =>
                     Rejected400(ValidatedAlone(K_h)) /\ Rejected400(vres)

\* C6 witness: w=2000 was accepted in a call that refused h=2001
C6_Witness ==
    /\ Validated
    /\ tokens = << <<"w", "=", "2", "0", "0", "0">>, <<"h", "=", "2", "0", "0", "1">> >>
    /\ ValidatedAlone(K_w).exc = "none"
    /\ ValidatedAlone(K_w).params["width"] = 2000
    /\ Rejected400(vres)
    /\ vres.message.text = "Height cannot exceed px"

\* a float value lies in [0, 100]
FloatInUnitRange(x) ==
    x.kind = "finite" /\ 0 <= x.num /\ x.num <= 100 * x.den

\* C7: every TransformParams returned by validate_transform_params has, for
\* each field present, width and height in 1..2000, quality in 10..100,
\* rotate in {0,90,180,270}, fit and format in their sets, blur in [0,100];
\* and a field is present only if its key occurred in the raw parameters.
C7_ReturnedFieldsInBounds ==
    (Validated /\ vres.exc = "none") =>
        LET tp == vres.params
            has(f) == f \in DOMAIN tp
        IN  /\ has("width") => tp["width"] \in 1..2000 /\ HasKey(raw_params, K_w)
            /\ has("height") => tp["height"] \in 1..2000 /\ HasKey(raw_params, K_h)
            /\ has("quality") => tp["quality"] \in 10..100 /\ HasKey(raw_params, K_q)
            /\ has("rotate") => tp["rotate"] \in {0, 90, 180, 270} /\ HasKey(raw_params, K_r)
            /\ has("fit") =>
                   /\ tp["fit"] \in { <<"c", "o", "n", "t", "a", "i", "n">>,
                                      <<"c", "o", "v", "e", "r">>, <<"f", "i", "l", "l">>,
                                      <<"i", "n", "s", "i", "d", "e">>,
                                      <<"o", "u", "t", "s", "i", "d", "e">> }
                   /\ HasKey(raw_params, K_fit)
            /\ has("format") =>
                   /\ tp["format"] \in { <<"j", "p", "e", "g">>, <<"j", "p", "g">>,
                                         <<"p", "n", "g">>, <<"w", "e", "b", "p">>,
                                         <<"a", "v", "i", "f">> }
                   /\ HasKey(raw_params, K_f)
            /\ has("blur") => FloatInUnitRange(tp["blur"]) /\ HasKey(raw_params, K_blur)
            /\ has("flip") => HasKey(raw_params, K_flip)
            /\ has("flop") => HasKey(raw_params, K_flop)
            /\ has("grayscale") =>
                   HasKey(raw_params, K_grayscale) \/ HasKey(raw_params, K_greyscale)
            /\ has("smart_crop") =>
                   HasKey(raw_params, K_smart) \/ HasKey(raw_params, K_smartcrop)

\* C7 without the blur bound on a NaN: what the validator does guarantee
C7_ReturnedFieldsInBoundsUnlessNaN ==
    (Validated /\ vres.exc = "none"
        /\ ("blur" \in DOMAIN vres.params => vres.params["blur"].kind # "nan"))
    => C7_ReturnedFieldsInBounds

\* the keys whose value can be refused, in the order of the claim
CheckedKeys == <<K_w, K_h, K_q, K_f, K_r, K_fit, K_blur>>

\* the value of key k breaks the rule the specification gives for k
ViolatesRule(k, value) ==
    CASE k = K_w -> ~IntegerIn(value, 1, 2000)
      [] k = K_h -> ~IntegerIn(value, 1, 2000)
      [] k = K_q -> ~IntegerIn(value, 10, 100)
      [] k = K_r -> ~(\E n \in {0, 90, 180, 270} : IntegerIn(value, n, n))
      [] k = K_f -> Lower(value) \notin SUPPORTED_FORMATS
      [] k = K_fit -> Lower(value) \notin VALID_FIT_VALUES
      [] k = K_blur -> ~(ParseFloat(value).ok /\ FloatInUnitRange(ParseFloat(value)))

ViolatingPositions ==
    {i \in 1..Len(CheckedKeys) :
        /\ HasKey(raw_params, CheckedKeys[i])
        /\ ViolatesRule(CheckedKeys[i], raw_params[CheckedKeys[i]])}

FirstViolatingKey ==
    CheckedKeys[CHOOSE i \in ViolatingPositions : \A j \in ViolatingPositions : i <= j]

\* C8: when one or more present keys violate their rule, the call fails with
\* status 400 and the message of the first violating key in the order
\* w, h, q, f, r, fit, blur, and returns no partially validated request.
C8_FirstViolationReported ==
    (Validated /\ ViolatingPositions # {}) =>
        /\ Rejected400(vres)
        /\ Rejected400(ValidatedAlone(FirstViolatingKey))
        /\ vres.message = ValidatedAlone(FirstViolatingKey).message
        /\ vres.params = EmptyDict

\* C8 for requests whose blur is not a NaN
C8_FirstViolationReportedUnlessNaN ==
    (Validated /\ ViolatingPositions # {}
        /\ ~(HasKey(raw_params, K_blur) /\ ParseFloat(raw_params[K_blur]).kind = "nan"))
    => C8_FirstViolationReported

\* position of the last token holding "=" whose key is k
HasEquals(t) == \E i \in 1..Len(t) : t[i] = "="

KeyOfToken(t) == SubSeq(t, 1, IndexOf(t, "=") - 1)

ValueOfToken(t) == SubSeq(t, IndexOf(t, "=") + 1, Len(t))

LastBinding(k) ==
    CHOOSE i \in 1..Len(tokens) :
        /\ HasEquals(tokens[i]) /\ KeyOfToken(tokens[i]) = k
        /\ \A j \in (i + 1)..Len(tokens) :
               ~(HasEquals(tokens[j]) /\ KeyOfToken(tokens[j]) = k)

\* C9: parse_query_parameters binds each key to the percent-decoded value of
\* its last occurrence among the "&"-separated tokens, each split at its first
\* "="; tokens without "=" contribute nothing; the empty string gives {}.
C9_LastOccurrenceWins ==
    vpc \in {"parsed", "validated"} =>
        /\ DOMAIN raw_params =
               {KeyOfToken(tokens[i]) : i \in {j \in 1..Len(tokens) : HasEquals(tokens[j])}}
        /\ \A k \in DOMAIN raw_params :
               raw_params[k] = Unquote(ValueOfToken(tokens[LastBinding(k)]))
        /\ query_string = <<>> => raw_params = EmptyDict

\* C9 witness: w occurs twice and the second, percent-encoded, value is bound
C9_Witness ==
    /\ vpc = "parsed"
    /\ tokens = << <<"w", "=", "1", "0", "0">>,
                   <<"w", "=", "%", "3", "1", "%", "3", "0">> >>
    /\ raw_params = (K_w :> <<"1", "0">>)

FlagKeys == {K_flip, K_flop, K_grayscale, K_greyscale, K_smart, K_smartcrop}

\* C10: flip, flop, grayscale, greyscale, smart and smartcrop never make
\* validate_transform_params fail (a failing call fails the same way without
\* them); flip (flop) is true exactly when its lower-cased value is one of
\* true, 1, yes; grayscale is true whenever grayscale or greyscale is present.
C10_FlagsNeverFail ==
    Validated =>
        LET others == validate_transform_params(
                          DictRestrict(raw_params, (DOMAIN raw_params) \ FlagKeys))
            truthy == { <<"t", "r", "u", "e">>, <<"1">>, <<"y", "e", "s">> }
        IN  /\ vres.exc = others.exc
            /\ vres.exc # "none" => vres = others
            /\ vres.exc = "none" =>
                  /\ HasKey(raw_params, K_flip) =>
                         vres.params["flip"] = (Lower(raw_params[K_flip]) \in truthy)
                  /\ HasKey(raw_params, K_flop) =>
                         vres.params["flop"] = (Lower(raw_params[K_flop]) \in truthy)
                  /\ (HasKey(raw_params, K_grayscale) \/ HasKey(raw_params, K_greyscale)) =>
                         vres.params["grayscale"] = TRUE

\* C10 witness: grayscale=false and flip=YES were both accepted and set true
C10_Witness ==
    /\ Validated
    /\ HasKey(raw_params, K_grayscale) /\ raw_params[K_grayscale] = <<"f", "a", "l", "s", "e">>
    /\ HasKey(raw_params, K_flip) /\ raw_params[K_flip] = <<"Y", "E", "S">>
    /\ vres.exc = "none"
    /\ vres.params = [grayscale |-> TRUE, flip |-> TRUE]

-----------------------------------------------------------------------------
(* Properties of the signature gate, checked under SpecS *)

SigChecked == spc = "validated" /\ is_signature_enabled

SigRejected(status) == sres.exc = "ImageProcessingError" /\ sres.status = status

\* the query of the request as parse_qs gives it
SigQuery == parse_qs(UrlParse(request_url).query)

\* the signature and the expires value the request carries
ProvidedSignature == QsGet(SigQuery, K_signature)[1]

ProvidedExpires == QsGet(SigQuery, K_expires)[1]

CarriesBoth == QsHas(SigQuery, K_signature) /\ QsHas(SigQuery, K_expires)

\* the signing secret can be had: from the store or from the cache
SecretAvailable == sres.store # "down" \/ sres.cache_before.has

\* the digest validate_signature computes for the request
ComputedDigest == HmacSha256Hex(SigningSecret, StringToSign(request_url))

\* the "&"-separated tokens of the query as they stand in the URL
UrlTokens ==
    LET query == UrlParse(request_url).query IN
    IF query = <<>> THEN <<>> ELSE Split(query, "&")

IsSignatureToken(t) ==
    IF HasEquals(t) THEN KeyOfToken(t) = K_signature ELSE t = K_signature

\* path + "?" + every query parameter except signature, joined by "&" in the
\* order of the URL
UrlCanonicalString ==
    UrlParse(request_url).path \o <<"?">>
        \o Join(SelectSeq(UrlTokens, LAMBDA t : ~IsSignatureToken(t)), "&")

\* C3: with signature checking enabled the checks run in this order and the
\* first that fails decides: signature or expires missing -> 403; expires not
\* an integer -> 400; current time later than expires -> 403; provided
\* signature different from the computed digest -> 403; the call returns
\* normally only when all four pass.  (Stated for a retrievable secret.)
C3_ChecksInOrder ==
    (SigChecked /\ SecretAvailable) =>
        IF ~CarriesBoth THEN SigRejected(403)
        ELSE IF ~ParseInt(ProvidedExpires).ok THEN SigRejected(400)
        ELSE IF NowSeconds(clock) > ParseInt(ProvidedExpires).val THEN SigRejected(403)
        ELSE IF ProvidedSignature # ComputedDigest THEN SigRejected(403)
        ELSE sres.exc = "none"

\* the provided signature is written in ASCII
AsciiSignature ==
    QsHas(SigQuery, K_signature) =>
        \A i \in 1..Len(ProvidedSignature) : IsAscii(ProvidedSignature[i])

\* C3 for requests whose signature is written in ASCII
C3_ChecksInOrderForAsciiSignatures ==
    (SigChecked /\ AsciiSignature) => C3_ChecksInOrder

\* the request passes the presence and expiry checks
Unexpired ==
    /\ CarriesBoth
    /\ ParseInt(ProvidedExpires).ok
    /\ NowSeconds(clock) <= ParseInt(ProvidedExpires).val

\* C4: an unexpired request succeeds if and only if its signature is the
\* HMAC-SHA256 hex digest, under the signing secret, of path + "?" + all query
\* parameters except signature joined by "&" in URL order; any other
\* signature is rejected with status 403.
C4_SignatureOverUrlQuery ==
    (SigChecked /\ SecretAvailable /\ Unexpired) =>
        LET expected == HmacSha256Hex(SigningSecret, UrlCanonicalString) IN
        /\ (sres.exc = "none") <=> (ProvidedSignature = expected)
        /\ ProvidedSignature # expected => SigRejected(403)

\* every parameter of the URL has a name of its own and a non-empty value
\* written without escapes
PlainQuery ==
    /\ \A i \in 1..Len(UrlTokens) :
           LET t == UrlTokens[i] IN
           /\ HasEquals(t) /\ ValueOfToken(t) # <<>>
           /\ \A j \in 1..Len(t) : t[j] \notin {"%", "+"}
           /\ \A j \in 1..Len(UrlTokens) :
                  (j # i /\ HasEquals(UrlTokens[j])) => KeyOfToken(UrlTokens[j]) # KeyOfToken(t)

\* C4 for the URLs that parse_qs hands on unchanged
C4_SignatureOverUrlQueryWhenPlain ==
    (SigChecked /\ PlainQuery) => C4_SignatureOverUrlQuery

\* C5: a request whose expires is strictly earlier than the current time in
\* whole seconds is rejected with status 403 whatever its signature, before the
\* secret is fetched or the secret cache is touched; a request whose expires
\* equals the current second is not rejected as expired.
C5_ExpiredBeforeSecret ==
    (SigChecked /\ QsHas(SigQuery, K_expires) /\ ParseInt(ProvidedExpires).ok) =>
        LET expires == ParseInt(ProvidedExpires).val IN
        /\ expires < NowSeconds(clock) =>
              /\ SigRejected(403)
              /\ sres.store_calls = 0
              /\ sres.cache = sres.cache_before
              /\ sres.cache_time = sres.cache_time_before
        /\ expires = NowSeconds(clock) =>
              /\ sres.text # "Signature has expired"
              /\ (CarriesBoth /\ SecretAvailable /\ ProvidedSignature = ComputedDigest)
                     => sres.exc = "none"

\* C5 witness: a request signed correctly for expires=4 arrived in second 5,
\* with the secret already cached, and was refused as expired
C5_Witness ==
    /\ SigChecked
    /\ client.sign = "exact" /\ client.prior
    /\ ProvidedExpires = <<"4">> /\ NowSeconds(clock) = 5
    /\ ProvidedSignature = ComputedDigest
    /\ SigRejected(403) /\ sres.text = "Signature has expired"
    /\ sres.cache_before = Some(SigningSecret) /\ sres.cache = sres.cache_before
    /\ sres.store_calls = 0

-----------------------------------------------------------------------------
(* Properties of the pipeline, checked under SpecP *)

\* a step of the pipeline raises on the inputs of the call
StepRaises ==
    ProcessImageBody(image_bytes, transform_params, fault).exc # "none"

-----------------------------------------------------------------------------
(* Properties of the handler, checked under SpecH *)

HandlerPositions ==
    {"idle", "signature", "validate", "fetch", "respond", "handle_error",
     "error_body", "returned"}

Returned == hpc = "returned"

\* the response is one of the four kinds of outcome
IsOutcome(write) ==
    CASE write.source = "response" -> write.body = hbody
      [] write.source = "original" -> write.body = image_bytes
      [] write.source = "fallback" -> write.body = FallbackImage
      [] write.source = "error" ->
            write.body = ErrorBody(herror) /\ write.status_code = herror.status
      [] OTHER -> FALSE

\* C2 as stated: every invocation ends with exactly one response written to
\* the sink, whatever the outcomes of the writes.
C2_ExactlyOneResponse ==
    Returned => (Len(sink) = 1 /\ IsOutcome(sink[1]))

\* C2 as the handler keeps it: every failure on the way becomes an error of
\* status 400, 403, 404 or 500 that handle_error deals with; the sink accepts
\* at most one response, of one of the four kinds, and accepting one ends the
\* invocation; an invocation returns with no response exactly when the sink
\* refused every write, the JSON error body last.
C2_OneResponseUnlessSinkRefuses ==
    /\ hpc \in HandlerPositions
    /\ hpc \in {"handle_error", "error_body"} => herror.status \in {400, 403, 404, 500}
    /\ Len(sink) <= 1
    /\ sink # <<>> => (Returned /\ IsOutcome(sink[1]))
    /\ Returned =>
          /\ attempts # <<>>
          /\ (Len(sink) = 1) <=> attempts[Len(attempts)].ok
          /\ \A i \in 1..(Len(attempts) - 1) : ~attempts[i].ok
          /\ sink = <<>> => attempts[Len(attempts)].source = "error"

\* C2 witness: the sink refused the image, the fallback image and the JSON
\* error body, and the invocation returned with nothing written
C2_Witness ==
    /\ Returned
    /\ sink = <<>>
    /\ Len(attempts) = 3
    /\ attempts[1].source = "response" /\ attempts[2].source = "fallback"
    /\ attempts[3].source = "error"
    /\ \A i \in 1..3 : ~attempts[i].ok

-----------------------------------------------------------------------------
(* Properties of the quality policy, checked under SpecQ *)

\* get_optimal_quality was called with the arguments of the state
QualityComputed == qpc = "quality"

\* q brought into 10..100
ClampedTo10_100(q) == IF q < 10 THEN 10 ELSE IF q > 100 THEN 100 ELSE q

\* C11: when a custom quality is given, get_optimal_quality returns it clamped
\* to 10..100, for every format (png too), profile and size hint.
C11_CustomQualityOverrides ==
    (QualityComputed /\ custom_quality.has) =>
        qres.quality = ClampedTo10_100(custom_quality.val)

\* C11 witness: a custom quality of 0 for a png of 3 MiB under the Optimized
\* profile came back as 10
C11_Witness ==
    /\ QualityComputed
    /\ custom_quality = Some(0)
    /\ image_format = F_png
    /\ quality_profile = Some("OPTIMIZED")
    /\ file_size_hint = Some(3 * 1024 * 1024)
    /\ qres.quality = 10

\* the profile the call works with
EffectiveProfile == IF quality_profile.has THEN quality_profile.val ELSE default_profile

\* the table of the three lossy formats, as the specification prints it
TableQuality(profile, format) ==
    CASE profile = "HIGH" /\ format = F_jpeg -> 90
      [] profile = "HIGH" /\ format = F_webp -> 85
      [] profile = "HIGH" /\ format = F_avif -> 70
      [] profile = "STANDARD" /\ format = F_jpeg -> 85
      [] profile = "STANDARD" /\ format = F_webp -> 80
      [] profile = "STANDARD" /\ format = F_avif -> 60
      [] profile = "OPTIMIZED" /\ format = F_jpeg -> 75
      [] profile = "OPTIMIZED" /\ format = F_webp -> 70
      [] profile = "OPTIMIZED" /\ format = F_avif -> 50

QualityFloor(format) ==
    CASE format = F_jpeg -> 70 [] format = F_webp -> 65 [] format = F_avif -> 45

QualityCeiling(format) ==
    CASE format = F_jpeg -> 95 [] format = F_webp -> 90 [] format = F_avif -> 75

\* the table value moved by the size hint
SizedQuality(table, format, size_hint) ==
    IF size_hint.has /\ size_hint.val > 2 * 1024 * 1024
    THEN IF table - 5 < QualityFloor(format) THEN QualityFloor(format) ELSE table - 5
    ELSE IF size_hint.has /\ size_hint.val < 50 * 1024
    THEN IF table + 5 > QualityCeiling(format) THEN QualityCeiling(format) ELSE table + 5
    ELSE table

\* C12: without a custom quality, jpeg, webp and avif get the table value of
\* the profile (the default profile when none is given), five less but not
\* under 70/65/45 for a size hint over 2 MiB, five more but not over 95/90/75
\* for a size hint under 50 KiB, and the table value itself otherwise.
C12_TableAndSizeAdjustment ==
    (QualityComputed /\ ~custom_quality.has
        /\ Lower(image_format) \in {F_jpeg, F_webp, F_avif}) =>
        qres.quality =
            SizedQuality(TableQuality(EffectiveProfile, Lower(image_format)),
                         Lower(image_format), file_size_hint)

\* C12 witness: jpeg, High profile, 3 MiB gave 85
C12_Witness ==
    /\ QualityComputed
    /\ ~custom_quality.has
    /\ image_format = F_jpeg
    /\ quality_profile = Some("HIGH")
    /\ file_size_hint = Some(3 * 1024 * 1024)
    /\ qres.quality = 85

\* C12 also at the thresholds: exactly 2 MiB and exactly 50 KiB leave the
\* table value as it is
C12_ThresholdsUnchanged ==
    (QualityComputed /\ ~custom_quality.has
        /\ Lower(image_format) \in {F_jpeg, F_webp, F_avif}
        /\ file_size_hint \in {Some(2 * 1024 * 1024), Some(50 * 1024)}) =>
        qres.quality = TableQuality(EffectiveProfile, Lower(image_format))

\* C13 as stated: whatever the format, profile, custom quality and size hint,
\* the result of get_optimal_quality is within 10..100.
C13_AlwaysWithin10_100 ==
    QualityComputed => qres.quality \in 10..100

\* C13 as the code keeps it: the result is within 10..100 whenever a custom
\* quality is given or the format is not png; for png without a custom quality
\* the result is the compression level of the profile, 6 or 9, as it stands in
\* the table.
C13_Within10_100UnlessPngLevel ==
    QualityComputed =>
        IF custom_quality.has \/ Lower(image_format) # F_png
        THEN qres.quality \in 10..100
        ELSE qres.quality = (IF EffectiveProfile = "OPTIMIZED" THEN 9 ELSE 6)

\* C13 witness: png under the Optimized profile without a custom quality came
\* back as 9
C13_Witness ==
    /\ QualityComputed
    /\ ~custom_quality.has
    /\ image_format = <<"P", "N", "G">>
    /\ quality_profile = Some("OPTIMIZED")
    /\ qres.quality = 9

\* determine_quality_profile_from_params was called with the parameters of the state
ProfileDetermined == qpc = "profile"

RequestedQuality == ParamGet(profile_params, "quality", 0)

\* a requested dimension satisfies the test
SomeDimension(Test(_)) ==
    \/ HasKey(profile_params, "width") /\ Test(profile_params["width"])
    \/ HasKey(profile_params, "height") /\ Test(profile_params["height"])

AtMost300(n) == n <= 300

AtLeast1200(n) == n >= 1200

\* C14: the profile is High for a requested quality of 90 or more; otherwise
\* Optimized when a requested width or height is 300 or less; otherwise
\* Standard when a requested width or height is 1200 or more; otherwise the
\* default profile of the optimizer.
C14_ProfileFromParams ==
    ProfileDetermined =>
        qres.profile =
            IF HasKey(profile_params, "quality") /\ RequestedQuality >= 90 THEN "HIGH"
            ELSE IF SomeDimension(AtMost300) THEN "OPTIMIZED"
            ELSE IF SomeDimension(AtLeast1200) THEN "STANDARD"
            ELSE default_profile

\* C14 witness: quality 95 with width 200 is High, under a default of Optimized
C14_Witness ==
    /\ ProfileDetermined
    /\ default_profile = "OPTIMIZED"
    /\ profile_params = ProfileParams(95, 200, 0)
    /\ qres.profile = "HIGH"

\* C14, the other example: width 200 with height 1500 is Optimized
C14_SmallBeforeLarge ==
    (ProfileDetermined /\ profile_params = ProfileParams(0, 200, 1500)) =>
        qres.profile = "OPTIMIZED"

-----------------------------------------------------------------------------
(* Properties of encoding and resizing, checked under SpecP and SpecR *)

\* process_image returned what Image.save wrote
Transformed ==
    /\ ppc = "processed"
    /\ IsImageFile(pres.bytes)
    /\ "saved" \in pres.bytes[6]

RequestedFormat == ParamGet(transform_params, "format", F_jpeg)

\* the name Pillow knows the requested format by
SavedAs(format) ==
    CASE format \in {F_jpeg, F_jpg} -> "JPEG"
      [] format = F_png -> "PNG"
      [] format = F_webp -> "WEBP"
      [] format = F_avif -> "AVIF"

\* what the quality policy gives for the request of the state and a source of
\* size_hint bytes
PolicySetting(default, size_hint) ==
    get_optimal_quality(
        default, RequestedFormat,
        Some(determine_quality_profile_from_params(default, transform_params)),
        IF HasKey(transform_params, "quality") THEN Some(transform_params["quality"])
        ELSE NoNumber,
        size_hint)

\* C15 as stated: the output format is the requested one (jpeg when none is
\* named) and the quality or compression level handed to the encoder is what
\* get_optimal_quality gives for that format, the profile derived from the
\* request, the requested quality and the byte length of the source.  The byte
\* length is left open: the setting has to agree for one length at least.
C15_EncoderFollowsQualityPolicy ==
    Transformed =>
        /\ pres.bytes[1] = SavedAs(RequestedFormat)
        /\ \E size_hint \in SizeHintPool \ {NoNumber} :
               pres.bytes[5] = PolicySetting("STANDARD", size_hint)

\* C15, the part the pipeline keeps: the output format is the requested one,
\* jpeg when none is named
C15_OutputFormatDefaultsToJpeg ==
    Transformed => pres.bytes[1] = SavedAs(RequestedFormat)

ResizeAsked ==
    /\ ppc = "processed"
    /\ HasKey(transform_params, "width") /\ HasKey(transform_params, "height")
    /\ DOMAIN transform_params \subseteq {"width", "height", "fit"}

RequestedFit == ParamGet(transform_params, "fit", <<"c", "o", "n", "t", "a", "i", "n">>)

\* one axis of out is the other one scaled by the ratio of source, rounded
\* down or up
AspectKept(source, out) ==
    \/ AbsDiff(out[2] * source[1], out[1] * source[2]) < source[1]
    \/ AbsDiff(out[1] * source[2], out[2] * source[1]) < source[2]

\* C16: with a width W and a height H requested, cover and fill give an image
\* of exactly W x H; contain, also as the default, gives an image no wider than
\* W, no higher than H, no larger than the source and of the source's aspect
\* ratio up to rounding.
C16_ResizeToBox ==
    ResizeAsked =>
        LET W == transform_params["width"]
            H == transform_params["height"]
            source == <<image_bytes[3], image_bytes[4]>>
            out == <<pres.bytes[3], pres.bytes[4]>>
        IN  /\ Transformed
            /\ RequestedFit \in {<<"c", "o", "v", "e", "r">>, <<"f", "i", "l", "l">>}
                   => out = <<W, H>>
            /\ RequestedFit = <<"c", "o", "n", "t", "a", "i", "n">> =>
                   /\ out[1] <= W /\ out[2] <= H
                   /\ out[1] <= source[1] /\ out[2] <= source[2]
                   /\ out[1] >= 1 /\ out[2] >= 1
                   /\ AspectKept(source, out)

\* C16 witness: a 6 x 4 source asked for 4 x 4 without a fit came out 4 x 3
C16_Witness ==
    /\ ResizeAsked
    /\ image_bytes[3] = 6 /\ image_bytes[4] = 4
    /\ transform_params = ResizeParams(4, 4, <<>>)
    /\ pres.bytes[3] = 4 /\ pres.bytes[4] = 3

-----------------------------------------------------------------------------
(* Properties of the secret cache, checked under SpecC *)

IsCall(j) == secret_log[j].kind = "call"

\* call i fetched the secret from the store
Fetched(i) ==
    IsCall(i) /\ secret_log[i].exc = "none" /\ secret_log[i].lookups # <<>>

\* i is the last fetch before call j
LastFetchBefore(i, j) ==
    /\ i < j /\ Fetched(i) /\ IsCall(j)
    /\ \A k \in (i + 1)..(j - 1) : ~Fetched(k)

\* the time to live in the unit of the clock
TtlTicks == 2 * 300

\* what C17 says of call j after the fetch i
ServedFromCacheOrRefetched(i, j) ==
    IF secret_log[j].at < secret_log[i].at + TtlTicks
    THEN /\ secret_log[j].exc = "none"
         /\ secret_log[j].secret = secret_log[i].secret
         /\ secret_log[j].lookups = <<>>
    ELSE /\ secret_log[j].lookups # <<>>
         /\ secret_log[j].exc = "none" =>
                /\ secret_log[j].cache_after = Some(secret_log[j].secret)
                /\ secret_log[j].cache_time_after = Some(secret_log[j].at)

\* C17 as stated: after a fetch at time t every call before t + 300 s returns
\* the fetched secret without a lookup in the store, and a call at t + 300 s
\* or later looks the secret up again and, when it finds it, replaces the
\* cached value and its time.
C17_CachedForTtl ==
    \A j \in 1..Len(secret_log) : \A i \in 1..(j - 1) :
        LastFetchBefore(i, j) => ServedFromCacheOrRefetched(i, j)

\* C17 for secrets that are not the empty string
C17_CachedForTtlWhenNonEmpty ==
    \A j \in 1..Len(secret_log) : \A i \in 1..(j - 1) :
        (LastFetchBefore(i, j) /\ secret_log[i].secret # <<>>)
            => ServedFromCacheOrRefetched(i, j)

\* call j found no fresh cache entry
Missed(j) ==
    /\ IsCall(j)
    /\ ~(/\ secret_log[j].cache_before.has
         /\ secret_log[j].cache_before.val # <<>>
         /\ secret_log[j].at - secret_log[j].cache_time_before.val < TtlTicks)

\* the field lookup succeeds in these states of the store, the plain one in those
FieldHeld == {"json", "rotated", "empty"}

PlainHeld == {"plain"}

\* C18: on a miss the signing_key field is looked up first and the plain
\* secret only when that failed; when both fail, or no secret name is
\* configured, the call fails with status 500 and the cached value and its
\* time are as they were.
C18_LookupOrderAndFailure ==
    \A j \in 1..Len(secret_log) :
        Missed(j) =>
            LET call == secret_log[j] IN
            CASE call.store = "unnamed" ->
                    /\ call.exc = "ImageProcessingError" /\ call.status = 500
                    /\ call.lookups = <<>>
                    /\ call.cache_after = call.cache_before
                    /\ call.cache_time_after = call.cache_time_before
              [] call.store \in FieldHeld ->
                    call.exc = "none" /\ call.lookups = <<"signing_key">>
              [] call.store \in PlainHeld ->
                    call.exc = "none" /\ call.lookups = <<"signing_key", "plain">>
              [] OTHER ->
                    /\ call.exc = "ImageProcessingError" /\ call.status = 500
                    /\ call.lookups = <<"signing_key", "plain">>
                    /\ call.cache_after = call.cache_before
                    /\ call.cache_time_after = call.cache_time_before

\* C18 witness: the secret was fetched, the time to live passed, the store
\* failed both lookups and the stale entry stayed in the cache
C18_Witness ==
    /\ Len(secret_log) = 3
    /\ Fetched(1)
    /\ secret_log[2].kind = "elapse"
    /\ Missed(3) /\ secret_log[3].store = "down"
    /\ secret_log[3].status = 500
    /\ secret_cache = Some(SigningSecret)
    /\ secret_cache_time = Some(secret_log[1].at)

-----------------------------------------------------------------------------
(* Properties of handle_error, checked under SpecH *)

\* the invocation returned from handle_error
ErrorHandled == Returned /\ herror # NoError

\* attempt i wrote the JSON error body with the status of the error
IsErrorBodyWrite(i) ==
    /\ attempts[i].source = "error"
    /\ attempts[i].body = ErrorBody(herror)
    /\ attempts[i].content_type = "application/json"
    /\ attempts[i].status_code = herror.status

\* attempt i wrote the bytes of the stored object as application/octet-stream
\* with the status of a success
IsOriginalWrite(i) ==
    /\ attempts[i].source = "original"
    /\ attempts[i].body = image_bytes
    /\ attempts[i].content_type = "application/octet-stream"
    /\ attempts[i].status_code = 200

\* C19: for an error below 500 handle_error writes the original bytes with
\* application/octet-stream and the status of a success; the JSON error body,
\* with application/json and the status of the error, is written only when
\* the original could not be fetched or its write failed, and then it is.
C19_OriginalThenErrorBody ==
    (ErrorHandled /\ herror.status < 500) =>
        /\ attempts # <<>>
        /\ \/ /\ Len(attempts) = 1
              /\ IsOriginalWrite(1) /\ attempts[1].ok
              /\ sink = <<Write("original", image_bytes, "application/octet-stream", 200)>>
           \/ /\ Len(attempts) = 2
              /\ IsOriginalWrite(1) /\ ~attempts[1].ok
              /\ IsErrorBodyWrite(2)
           \/ /\ Len(attempts) = 1
              /\ IsErrorBodyWrite(1)

\* C19 witness: a request refused with 400, the write of the original refused
\* by the sink, the JSON error body written with status 400
C19_Witness ==
    /\ ErrorHandled
    /\ herror.status = 400
    /\ Len(attempts) = 2
    /\ IsOriginalWrite(1) /\ ~attempts[1].ok
    /\ IsErrorBodyWrite(2) /\ attempts[2].ok
    /\ Len(sink) = 1 /\ sink[1].status_code = 400

\* the attempts that wrote the fallback image
FallbackAttempts == {i \in 1..Len(attempts) : attempts[i].source = "fallback"}

\* C20: the fallback image is written only when the feature is enabled and
\* the status is 500 or more; for such an error the original bytes are never
\* written, and unless the fallback image was written the last write is the
\* JSON error body with the status of the error.
C20_FallbackOnlyForServerErrors ==
    /\ FallbackAttempts # {} => (fallback_enabled /\ herror.status >= 500)
    /\ \A i \in FallbackAttempts :
           /\ attempts[i].body = FallbackImage
           /\ attempts[i].content_type = "image/jpeg"
    /\ (ErrorHandled /\ herror.status >= 500) =>
           /\ \A i \in 1..Len(attempts) : attempts[i].source # "original"
           /\ \A i \in 1..Len(sink) : sink[i].source # "original"
           /\ attempts # <<>>
           /\ IF \E i \in FallbackAttempts : attempts[i].ok
              THEN attempts[Len(attempts)].source = "fallback"
              ELSE IsErrorBodyWrite(Len(attempts))

\* C20 witness: the feature is enabled, the error has status 500, the sink
\* refused the fallback image and accepted the JSON error body
C20_Witness ==
    /\ ErrorHandled
    /\ fallback_enabled /\ herror.status = 500
    /\ \E i \in FallbackAttempts : ~attempts[i].ok
    /\ IsErrorBodyWrite(Len(attempts)) /\ attempts[Len(attempts)].ok
    /\ Len(sink) = 1 /\ sink[1].source = "error" /\ sink[1].status_code = 500

\* C20, the feature disabled: an error of status 500 goes to the JSON error
\* body and no fallback image is tried
C20_DisabledGoesToErrorBody ==
    (ErrorHandled /\ herror.status >= 500 /\ ~fallback_enabled) =>
        /\ FallbackAttempts = {}
        /\ IsErrorBodyWrite(Len(attempts))

-----------------------------------------------------------------------------
(* Properties of the order of the handler's steps, checked under SpecH *)

\* the place of a position in the order of lambda_handler
HStepRank(position) ==
    CASE position = "idle" -> 0
      [] position = "signature" -> 1
      [] position = "validate" -> 2
      [] position = "fetch" -> 3
      [] position = "respond" -> 4
      [] position = "handle_error" -> 5
      [] position = "error_body" -> 6
      [] position = "returned" -> 7

\* the request of the state carries a signature that is good at this time
SignatureAcceptable == Unexpired /\ ProvidedSignature = ComputedDigest

\* the query of the request of the state validates
ValidationAcceptable ==
    validate_transform_params(
        parse_query_parameters(UrlQueryString(request_url))).exc = "none"

\* one step of an invocation keeps the order of the claim
StepKeepsOrder ==
    /\ HStepRank(hpc') > HStepRank(hpc)
    /\ hpc' = "validate" =>
           (hpc = "signature" /\ (is_signature_enabled => SignatureAcceptable))
    /\ hpc' = "fetch" => (hpc = "validate" /\ ValidationAcceptable)
    /\ hpc' = "respond" => hpc = "fetch"
    /\ hbody' # hbody => hpc = "fetch"
    /\ Len(attempts') > Len(attempts) => hpc \in {"respond", "handle_error", "error_body"}
    /\ (hpc \in {"signature", "validate"} /\ hpc' # hpc) =>
           \/ hpc' = (IF hpc = "signature" THEN "validate" ELSE "fetch")
           \/ /\ hpc' = "handle_error"
              /\ herror'.status \in {400, 403, 500}
              /\ hbody' = <<>> /\ attempts' = <<>>

\* C21: the steps of an invocation come in the order signature gate (when
\* enabled), parsing and validation, fetch and transform, response write; no
\* step is gone back to; a request refused by the signature gate or by the
\* validator goes to handle_error at once, before any fetch or transform.
C21_StepsInOrder == [][StepKeepsOrder]_vars

\* C21 witness: a request refused by the validator with 400 was answered
\* without the pipeline having produced anything
C21_Witness ==
    /\ Returned
    /\ herror.status = 400
    /\ ~ValidationAcceptable
    /\ hbody = <<>>
    /\ \A i \in 1..Len(attempts) : attempts[i].source # "response"

\* the error being handled was raised by the signature checks
SignatureRefused ==
    /\ is_signature_enabled
    /\ herror.status = 403
    /\ herror.text \in {"Missing signature parameter", "Missing expires parameter",
                        "Signature has expired", "Invalid signature"}

\* C22 as stated: with signature checking enabled, an invocation whose
\* signature check failed never writes the bytes of the stored object to the
\* sink; the client receives an error body only.
C22_RefusedSignatureGetsNoObject ==
    SignatureRefused =>
        \A i \in 1..Len(sink) :
            sink[i].source = "error" /\ sink[i].body # image_bytes

\* C22, what the handler keeps: a request refused by the signature checks is
\* never transformed
C22_RefusedSignatureIsNotTransformed ==
    SignatureRefused =>
        /\ hbody = <<>>
        /\ \A i \in 1..Len(attempts) : attempts[i].source \in {"original", "error"}

-----------------------------------------------------------------------------
(* Properties relating the signed string and the validated request, checked
   under SpecS *)

\* lambda_handler lines 80-84 on a URL: what the validator makes of its query
TransformOf(url) ==
    validate_transform_params(parse_query_parameters(UrlQueryString(url)))

SigPassed == SigChecked /\ sres.exc = "none"

\* the URL that spells the signed string of the request, with the signature
\* of the request
CanonicalUrl ==
    AppendToUrl(StringToSign(request_url), K_signature \o <<"=">> \o ProvidedSignature)

\* the URL passes validate_signature where the request of the state did
PassesToo(url) ==
    validate_signature(url, TRUE, clock, sres.cache_before, sres.cache_time_before,
                       sres.store).exc = "none"

\* C23 as stated: two URLs that pass validate_signature with the same signed
\* string give the same TransformParams.  The second URL is the one that
\* spells the signed string of the first.
C23_TransformFollowsSignedString ==
    (SigPassed /\ PassesToo(CanonicalUrl)
        /\ StringToSign(CanonicalUrl) = StringToSign(request_url))
        => TransformOf(CanonicalUrl) = TransformOf(request_url)

\* C23 for requests whose parameters have distinct names and values that are
\* neither empty nor escaped
C23_TransformFollowsSignedStringWhenPlain ==
    (SigPassed /\ PlainQuery /\ PassesToo(CanonicalUrl)
        /\ StringToSign(CanonicalUrl) = StringToSign(request_url))
        => TransformOf(CanonicalUrl) = TransformOf(request_url)

-----------------------------------------------------------------------------
(* Properties of concurrent _get_secret calls, checked under SpecT *)

AllCallsDone == \A c \in Callers : callers[c].pc = "done"

\* C24 as stated: no call returns by the cache-hit path a value written by
\* another refresh than the timestamp it compared, and when both calls have
\* finished the cached value and its timestamp come from one fetch.
C24_NoHalfUpdatedEntry ==
    /\ \A c \in Callers :
           (callers[c].pc = "done" /\ callers[c].via = "hit")
               => callers[c].value_origin = callers[c].time_origin
    /\ AllCallsDone => cache_origin.value = cache_origin.time

\* C24 for a call on its own: when the other call never begins, the entry a
\* call returns or leaves is whole
C24_WholeWhenAlone ==
    (\E c \in Callers : callers[c].pc = "idle") =>
        /\ \A c \in Callers :
               (callers[c].pc = "done" /\ callers[c].via = "hit")
                   => callers[c].value_origin = callers[c].time_origin
        /\ (\E c \in Callers : callers[c].pc = "done")
               => cache_origin.value = cache_origin.time

-----------------------------------------------------------------------------
(* Properties of the writes of one invocation, checked under SpecH *)

SuccessfulAttempts == {i \in 1..Len(attempts) : attempts[i].ok}

\* C25: at most one write_get_object_response call succeeds per invocation,
\* and no write is attempted after a successful one: a successful attempt is
\* the last attempt, the sink holds what the successful attempts wrote, and
\* with a response in the sink the handler has returned.
C25_NoWriteAfterSuccess ==
    /\ \A i \in SuccessfulAttempts : i = Len(attempts)
    /\ Cardinality(SuccessfulAttempts) <= 1
    /\ Len(sink) = Cardinality(SuccessfulAttempts)
    /\ SuccessfulAttempts # {} => hpc = "returned"

\* C25 witness: the sink refused the transformed image and accepted the JSON
\* error body, after which the invocation returned
C25_Witness ==
    /\ hpc = "returned"
    /\ Len(attempts) = 2
    /\ attempts[1].source = "response" /\ ~attempts[1].ok
    /\ attempts[2].source = "error" /\ attempts[2].ok
    /\ Len(sink) = 1 /\ sink[1].source = "error"

-----------------------------------------------------------------------------
(* Properties of the content type of the main path, checked under SpecH *)

\* the media type of an image file of the given encoding
MediaTypeOf(format) ==
    CASE format = "PNG" -> "image/png"
      [] format = "WEBP" -> "image/webp"
      [] format = "AVIF" -> "image/avif"
      [] OTHER -> "image/jpeg"

\* the writes of lambda_handler's main path whose body is an image file
MainPathImageWrites ==
    {i \in 1..Len(attempts) :
        attempts[i].source = "response" /\ IsImageFile(attempts[i].body)}

\* C26 as stated: the content type the main path writes names the encoding of
\* the body it writes, also when process_image returned the original bytes.
C26_ContentTypeNamesEncoding ==
    \A i \in MainPathImageWrites :
        attempts[i].content_type = MediaTypeOf(attempts[i].body[1])

\* C26 for bodies this program encoded: the content type names the encoding
\* whenever process_image returned bytes written by Image.save
C26_ContentTypeNamesEncodingWhenSaved ==
    \A i \in MainPathImageWrites :
        "saved" \in attempts[i].body[6]
            => attempts[i].content_type = MediaTypeOf(attempts[i].body[1])

-----------------------------------------------------------------------------
(* Properties of the order of the stages, checked under SpecR *)

\* the order of the stages between decoding and encoding
StageOrder ==
    <<"normalize", "resize", "rotate", "flip", "flop", "grayscale", "blur">>

\* the position of a stage in that order
StageRank(stage) == CHOOSE i \in 1..Len(StageOrder) : StageOrder[i] = stage

\* the parameters one of which a stage needs in order to act
StageKeys(stage) ==
    CASE stage = "normalize" -> DOMAIN transform_params
      [] stage = "resize" -> {"width", "height"}
      [] OTHER -> {stage}

\* the stages that acted on the stored image for the request
StagesOfRequest ==
    AppliedStages(Tail(PipelineStages), OpenImage(image_bytes).image, transform_params)

\* C27: the stages act in the order colour normalization, resize, rotate,
\* flip, flop, grayscale, blur; a stage none of whose parameters is in the
\* request does not act and leaves no trace on the image written; a request
\* for fit=fill W x H gives H x W with rotate 90 or 270 and W x H with rotate
\* 0, 180 or none.
C27_StagesInFixedOrder ==
    (ppc = "processed" /\ transform_params # EmptyDict) =>
        LET ran == StagesOfRequest
            W == ParamGet(transform_params, "width", 0)
            H == ParamGet(transform_params, "height", 0)
        IN  /\ Transformed
            /\ \A i \in 1..Len(ran) : ran[i] \in {StageOrder[k] : k \in 1..Len(StageOrder)}
            /\ \A i \in 1..(Len(ran) - 1) : StageRank(ran[i]) < StageRank(ran[i + 1])
            /\ \A i \in 1..Len(ran) : StageKeys(ran[i]) \cap DOMAIN transform_params # {}
            /\ pres.bytes[6] \ {"saved"}
                   = {ran[i] : i \in 1..Len(ran)} \ {"normalize", "resize"}
            /\ ~HasKey(transform_params, "rotate") /\ W = 0 /\ H = 0
                   => <<pres.bytes[3], pres.bytes[4]>> = <<image_bytes[3], image_bytes[4]>>
            /\ (W # 0 /\ H # 0 /\ ParamGet(transform_params, "fit", <<>>) = <<"f", "i", "l", "l">>)
                   => <<pres.bytes[3], pres.bytes[4]>>
                          = IF ParamGet(transform_params, "rotate", 0) \in {90, 270}
                            THEN <<H, W>> ELSE <<W, H>>

\* C27 witness: a 3 x 2 image with transparency asked for fit=fill 3 x 2,
\* rotate 90, both mirrors, grayscale and blur went through every stage and
\* came out 2 x 3
C27_Witness ==
    /\ ppc = "processed"
    /\ image_bytes = <<"PNG", "RGBA", 3, 2, 6, {}>>
    /\ StagesOfRequest = StageOrder
    /\ ParamGet(transform_params, "rotate", 0) = 90
    /\ ParamGet(transform_params, "fit", <<>>) = <<"f", "i", "l", "l">>
    /\ <<pres.bytes[3], pres.bytes[4]>> = <<2, 3>>

-----------------------------------------------------------------------------
(* Properties of a resize with one axis given, checked under SpecR *)

\* only a width, or only a height, was asked for
OneAxisAsked ==
    /\ ppc = "processed"
    /\ DOMAIN transform_params \subseteq {"width", "height", "fit"}
    /\ HasKey(transform_params, "width") # HasKey(transform_params, "height")

\* the axis _apply_resize derives, rounded down
DerivedAxis ==
    IF HasKey(transform_params, "width")
    THEN (transform_params["width"] * image_bytes[4]) \div image_bytes[3]
    ELSE (transform_params["height"] * image_bytes[3]) \div image_bytes[4]

\* the image written is no wider than a width asked for and no higher than a
\* height asked for
WithinAskedAxis ==
    /\ HasKey(transform_params, "width") => pres.bytes[3] <= transform_params["width"]
    /\ HasKey(transform_params, "height") => pres.bytes[4] <= transform_params["height"]

\* C28 as stated: with only a width W given the image written is at most W
\* wide, with only a height H given at most H high, for every source size.
C28_OneAxisBoundsResult ==
    OneAxisAsked => (Transformed /\ WithinAskedAxis)

\* C28 for sources whose derived axis does not round down to 0
C28_OneAxisBoundsResultWhenDerivedAxisPositive ==
    (OneAxisAsked /\ DerivedAxis >= 1) => (Transformed /\ WithinAskedAxis)

-----------------------------------------------------------------------------
(* Properties of signing and validating together, checked under SpecS *)

\* the token names neither signature nor expires
NeitherSignatureNorExpires(t) ==
    LET name == IF HasEquals(t) THEN KeyOfToken(t) ELSE t
    IN  name \notin {K_signature, K_expires}

\* the secrets a store may hold in its signing_key field, by state of the store
SecretHolders == {"json", "rotated", "empty"}

\* url extended with expires and the signature generate_signature returns
\* under the secret the store holds
SignedWith(url, store, expires) ==
    AppendToUrl(AppendToUrl(url, K_expires \o <<"=">> \o IntToStr(expires)),
                K_signature \o <<"=">>
                    \o generate_signature(url, StructuredLookup(store).value, expires))

\* C29: a URL whose query holds neither signature nor expires, extended with
\* expires=E and the signature generate_signature returns for it, passes
\* validate_signature when E is not earlier than the current time and the
\* signing secret is the secret it was signed with.  Stated of the request the
\* client signed and the gate validated, and of the URL before it is signed
\* for every secret a store holds and for E the current second and the next.
C29_SignThenValidate ==
    /\ (/\ SigChecked /\ client.sign = "exact" /\ SecretAvailable
        /\ NowSeconds(clock) <= client.expires
        /\ \A i \in 1..(Len(UrlTokens) - 2) : NeitherSignatureNorExpires(UrlTokens[i]))
           => sres.exc = "none"
    /\ (/\ spc = "build" /\ client.sign = "none"
        /\ \A i \in 1..Len(UrlTokens) : NeitherSignatureNorExpires(UrlTokens[i]))
           => \A store \in SecretHolders :
                  \A expires \in {NowSeconds(clock), NowSeconds(clock) + 1} :
                      validate_signature(SignedWith(request_url, store, expires), TRUE,
                                         clock, None, None, store).exc = "none"

\* C29 witness: the URL /i?w=1&h= was signed for expires=4 and passed in
\* second 4
C29_Witness ==
    /\ SigChecked /\ client.sign = "exact"
    /\ Len(UrlTokens) = 4
    /\ UrlTokens[1] = <<"w", "=", "1">> /\ UrlTokens[2] = <<"h", "=">>
    /\ NowSeconds(clock) = 4
    /\ sres.exc = "none"

=============================================================================
